---------------------------- MODULE Spec2Model ----------------------------
(***************************************************************************)
(* The rules engine of LudoWithPowerUps (src/src/store/gameStore.ts with   *)
(* the board helpers of src/unnamed/part_003, the boardUtils the store     *)
(* imports): one zustand store, its commands as actions.                   *)
(*                                                                         *)
(* Encoding.  A player id `p<i>` is the seat index i; a token id           *)
(* `p<i>_t<k>` is the number 4*i + k, so the numeric order of token ids is *)
(* the insertion order of the `tokens` object (the order Object.keys and   *)
(* Array.find walk).  `null` is 0 for diceRoll and exactMoveValue (both    *)
(* range over 1..6 otherwise) and the empty sequence for the two pending   *)
(* records.  `undefined` for an optional argument is Undef.  A power-up is *)
(* [id, type]; ids are drawn fresh from nextId.  name and color of a       *)
(* player and the theme are display data no command reads.                 *)
(***************************************************************************)
EXTENDS Integers, Sequences, FiniteSets, TLC

VARIABLES
    players,                  \* seat -> [id, powerUps]
    tokens,                   \* token id -> Token
    currentPlayerIndex,
    diceRoll,                 \* 1..6, or NoDice
    phase,
    playerCount,              \* boardConfig.playerCount
    powerUpsOnBoard,          \* position -> power-up, on the occupied positions
    powerUpUsedThisTurn,
    turnCount,
    pendingPowerUpCollection, \* << >> or << [position, playerId] >>
    pendingPowerUpSelection,  \* << >> or << [powerUpType, powerUpIndex, playerId] >>
    timers,                   \* setTimeout callbacks of setDiceRoll not yet run
    nextId,                   \* the next fresh power-up id
    cmd,                      \* the command that has just run, or Idle
    pre,                      \* the store as that command found it
    steps,                    \* commands issued so far
    consumedThisTurn          \* power-ups consumed since the turn began

vars == << players, tokens, currentPlayerIndex, diceRoll, phase, playerCount,
           powerUpsOnBoard, powerUpUsedThisTurn, turnCount,
           pendingPowerUpCollection, pendingPowerUpSelection, timers, nextId,
           cmd, pre, steps, consumedThisTurn >>

---------------------------------------------------------------------------
(* Bounds of the exploration *)

MaxSteps == 3

(* Program constants *)

NoDice == 0
NoExact == 0
Undef == -1
NaN == -2
TokensPerPlayer == 4
MaxInventory == 3
MaxPowerUpsOnBoard == 8
RespawnBatch == 2
RespawnPeriod == 4
InitialSpawn == 6
LaneEnd == 5

PowerUpTypes ==
    { "SHIELD", "REVERSE", "SWAP",
      "TELEPORT", "DOUBLE_MOVE", "EXACT_MOVE", "WARP", "BACKWARDS_DASH",
      "SEND_BACK", "FREEZE", "STEAL_POWERUP", "MAGNET",
      "IMMUNITY", "PHASE", "SAFE_PASSAGE",
      "EXTRA_TURN", "BONUS_ROLL", "DICE_LOCK",
      "SWAP_DICE", "HOME_STRETCH_TELEPORT" }

---------------------------------------------------------------------------
(* Board geometry: src/unnamed/part_003 *)

Min(a, b) == IF a < b THEN a ELSE b
Max(a, b) == IF a > b THEN a ELSE b

getTrackLength(pc) == IF pc = 4 THEN 52 ELSE 13 * pc

startPositions == << 0, 13, 39, 26 >>
turningIndices == << 50, 11, 37, 24 >>
skippedIndices == << 51, 12, 38, 25 >>

getStartPosition(playerIndex, pc) ==
    IF pc = 4 /\ playerIndex \in 0..3
    THEN startPositions[playerIndex + 1]
    ELSE playerIndex * 13

getTurningIndex(playerIndex, pc) ==
    IF pc = 4 /\ playerIndex \in 0..3 THEN turningIndices[playerIndex + 1] ELSE 0

getSkippedIndex(playerIndex, pc) ==
    IF pc = 4 /\ playerIndex \in 0..3 THEN skippedIndices[playerIndex + 1] ELSE 0

isSafeZone(position, pc) ==
    IF pc = 4
    THEN position \in {0, 13, 39, 26} \/ position \in {8, 21, 34, 47}
    ELSE \E i \in 0..(pc - 1) : position = getStartPosition(i, pc)

isPowerUpZone(position, pc) ==
    IF pc = 4
    THEN \/ position \in {0, 8, 13, 21, 26, 34, 39, 47}
         \/ position % 13 = 4
         \/ position \in {2, 3, 5, 6, 15, 16, 18, 19, 28, 29, 31, 32, 41, 42, 44, 45}
    ELSE position % 13 = 4

getPowerUpSpawnPositions(pc) ==
    IF pc = 4
    THEN {0, 8, 13, 21, 26, 34, 39, 47} \cup
         {2, 3, 4, 5, 6, 15, 16, 17, 18, 19, 28, 29, 30, 31, 32, 41, 42, 43, 44, 45}
    ELSE { i \in 0..(getTrackLength(pc) - 1) : isPowerUpZone(i, pc) }

---------------------------------------------------------------------------
(* The store *)

get ==
    [ players |-> players, tokens |-> tokens,
      currentPlayerIndex |-> currentPlayerIndex, diceRoll |-> diceRoll,
      phase |-> phase, playerCount |-> playerCount,
      powerUpsOnBoard |-> powerUpsOnBoard,
      powerUpUsedThisTurn |-> powerUpUsedThisTurn, turnCount |-> turnCount,
      pendingPowerUpCollection |-> pendingPowerUpCollection,
      pendingPowerUpSelection |-> pendingPowerUpSelection,
      timers |-> timers, nextId |-> nextId ]

set(st) ==
    /\ players' = st.players
    /\ tokens' = st.tokens
    /\ currentPlayerIndex' = st.currentPlayerIndex
    /\ diceRoll' = st.diceRoll
    /\ phase' = st.phase
    /\ playerCount' = st.playerCount
    /\ powerUpsOnBoard' = st.powerUpsOnBoard
    /\ powerUpUsedThisTurn' = st.powerUpUsedThisTurn
    /\ turnCount' = st.turnCount
    /\ pendingPowerUpCollection' = st.pendingPowerUpCollection
    /\ pendingPowerUpSelection' = st.pendingPowerUpSelection
    /\ timers' = st.timers
    /\ nextId' = st.nextId

(* the store equals st *)
holds(st) ==
    /\ players = st.players
    /\ tokens = st.tokens
    /\ currentPlayerIndex = st.currentPlayerIndex
    /\ diceRoll = st.diceRoll
    /\ phase = st.phase
    /\ playerCount = st.playerCount
    /\ powerUpsOnBoard = st.powerUpsOnBoard
    /\ powerUpUsedThisTurn = st.powerUpUsedThisTurn
    /\ turnCount = st.turnCount
    /\ pendingPowerUpCollection = st.pendingPowerUpCollection
    /\ pendingPowerUpSelection = st.pendingPowerUpSelection
    /\ timers = st.timers
    /\ nextId = st.nextId

INITIAL_STATE ==
    [ players |-> << >>, tokens |-> << >>,
      currentPlayerIndex |-> 0, diceRoll |-> NoDice,
      phase |-> "SETUP", playerCount |-> 4,
      powerUpsOnBoard |-> << >>,
      powerUpUsedThisTurn |-> FALSE, turnCount |-> 0,
      pendingPowerUpCollection |-> << >>,
      pendingPowerUpSelection |-> << >>,
      timers |-> 0, nextId |-> 1 ]

TokenOwner(tokenId) == tokenId \div TokensPerPlayer

newToken(p) ==
    [ playerId |-> p, position |-> -1, status |-> "BASE",
      isInvulnerable |-> FALSE, shieldTurnsRemaining |-> 0,
      isReversed |-> FALSE, frozenTurnsRemaining |-> 0,
      isPhased |-> FALSE, phasedTurnsRemaining |-> 0,
      isImmune |-> FALSE, immunityTurnsRemaining |-> 0,
      doubleMoveNext |-> FALSE, exactMoveValue |-> NoExact,
      safePassageMovesRemaining |-> 0 ]

(* players[i] of the code: defined for the seats only *)
hasPlayer(st, i) == i \in DOMAIN st.players
hasToken(st, tokenId) == tokenId \in DOMAIN st.tokens
findIndex(st, playerId) == IF playerId \in DOMAIN st.players THEN playerId ELSE -1
playerTokens(st, p) == { t \in DOMAIN st.tokens : st.tokens[t].playerId = p }


---------------------------------------------------------------------------
(* Random draws, bounded.  A uniformly random sample of eligible positions *)
(* and of types is any sample; the model draws the positions among the     *)
(* lowest available ones and the types from SpawnTypes.                    *)

SpawnSpread == 1
SpawnTypes == { "SHIELD", "TELEPORT" }

Lowest(S, m) == { x \in S : Cardinality({ y \in S : y < x }) < m }

(* getRandomPowerUpSpawnPositions(count, pc, exclude): the samples drawn, *)
(* the k - 1 lowest available positions and one of the next ones           *)
getRandomPowerUpSpawnPositions(count, pc, excludePositions) ==
    LET available == getPowerUpSpawnPositions(pc) \ excludePositions
        k == Min(count, Cardinality(available))
        fixed == Lowest(available, k - 1)
        near == Lowest(available, k + SpawnSpread)
    IN  IF k = 0 THEN { {} }
        ELSE { fixed \cup { x } : x \in near \ fixed }

(* generatePowerUp for a sample: one type of SpawnTypes for the batch *)
typed(S) == { [ pos \in S |-> ty ] : ty \in SpawnTypes }

(* spawnPowerUpOnBoard for each position of a batch, ids fresh *)
spawnAll(st, batch) ==
    LET D == DOMAIN batch
        rank(pos) == Cardinality({ q \in D : q < pos })
        old == st.powerUpsOnBoard
    IN  [ st EXCEPT
            !.powerUpsOnBoard =
                [ pos \in (DOMAIN old) \cup D |->
                    IF pos \in D
                    THEN [ id |-> st.nextId + rank(pos), type |-> batch[pos] ]
                    ELSE old[pos] ],
            !.nextId = st.nextId + Cardinality(D) ]

NoBatch == << >>

(* a variant of the draw that does not look at the cap *)
respawnBatchesUncapped(st) ==
    UNION { typed(S) :
        S \in getRandomPowerUpSpawnPositions(
                 RespawnBatch, st.playerCount, DOMAIN st.powerUpsOnBoard) }

(* the batches respawnPowerUps may draw in store st *)
respawnBatches(st) ==
    LET currentCount == Cardinality(DOMAIN st.powerUpsOnBoard)
    IN  IF currentCount < MaxPowerUpsOnBoard
        THEN UNION { typed(S) :
                 S \in getRandomPowerUpSpawnPositions(
                          Min(RespawnBatch, MaxPowerUpsOnBoard - currentCount),
                          st.playerCount, DOMAIN st.powerUpsOnBoard) }
        ELSE { NoBatch }

respawnPowerUps(st, batch) == spawnAll(st, batch)

(* the batches initGame(n) may draw *)
initBatches(n) ==
    UNION { typed(S) : S \in getRandomPowerUpSpawnPositions(InitialSpawn, n, {}) }

initGame(st, n, batch) ==
    LET fresh ==
            [ st EXCEPT
                !.players = [ i \in 0..(n - 1) |-> [ id |-> i, powerUps |-> << >> ] ],
                !.tokens = [ t \in 0..(TokensPerPlayer * n - 1) |-> newToken(TokenOwner(t)) ],
                !.playerCount = n,
                !.phase = "ROLLING",
                !.currentPlayerIndex = 0,
                !.powerUpsOnBoard = << >>,
                !.powerUpUsedThisTurn = FALSE,
                !.turnCount = 0,
                !.pendingPowerUpCollection = << >>,
                !.pendingPowerUpSelection = << >> ]
    IN  spawnAll(fresh, batch)

---------------------------------------------------------------------------
(* nextTurn *)

clockwiseOrder == << 0, 1, 3, 2 >>

indexOf(seq, x) ==
    IF \E i \in 1..Len(seq) : seq[i] = x
    THEN (CHOOSE i \in 1..Len(seq) : seq[i] = x) - 1
    ELSE -1

(* a variant of the turn order that counts the seats up for four players too *)
nextPlayerIndexSequential(st) ==
    LET n == Cardinality(DOMAIN st.players)
    IN  IF n = 0 \/ st.currentPlayerIndex = NaN THEN NaN
        ELSE (st.currentPlayerIndex + 1) % n

nextPlayerIndex(st) ==
    LET n == Cardinality(DOMAIN st.players)
    IN  IF n = 4
        THEN clockwiseOrder[((indexOf(clockwiseOrder, st.currentPlayerIndex) + 1) % 4) + 1]
        ELSE IF n = 0 \/ st.currentPlayerIndex = NaN
             THEN NaN
             ELSE (st.currentPlayerIndex + 1) % n

respawnDue(st) == (st.turnCount + 1) % RespawnPeriod = 0

(* the batches a nextTurn in store st may draw *)
nextTurnBatches(st) == IF respawnDue(st) THEN respawnBatches(st) ELSE { NoBatch }

nextTurn(st, batch) ==
    LET spawned == IF respawnDue(st) THEN respawnPowerUps(st, batch) ELSE st
    IN  [ spawned EXCEPT
            !.currentPlayerIndex = nextPlayerIndex(st),
            !.diceRoll = NoDice,
            !.phase = "ROLLING",
            !.powerUpUsedThisTurn = FALSE,
            !.turnCount = st.turnCount + 1 ]

---------------------------------------------------------------------------
(* setDiceRoll / setDiceRollValue *)

hasValidMove(st, p, roll) ==
    \E t \in playerTokens(st, p) :
        LET token == st.tokens[t]
        IN  \/ token.status = "BASE" /\ roll = 6
            \/ token.status = "ACTIVE"
            \/ token.status = "HOME_STRETCH" /\ token.position + roll <= LaneEnd

(* what both roll commands do once the value is known *)
applyRoll(st, roll) ==
    IF ~hasPlayer(st, st.currentPlayerIndex)
    THEN st
    ELSE IF hasValidMove(st, st.players[st.currentPlayerIndex].id, roll)
         THEN [ st EXCEPT !.powerUpUsedThisTurn = FALSE,
                          !.diceRoll = roll, !.phase = "MOVING" ]
         ELSE [ st EXCEPT !.powerUpUsedThisTurn = FALSE,
                          !.diceRoll = roll, !.phase = "SKIPPING",
                          !.timers = st.timers + 1 ]

(* Math.random(): the unit interval in sixty equal cells, each standing for *)
(* the values random with cell / 60 <= random < (cell + 1) / 60; the roll   *)
(* is the same for all values of a cell                                     *)
Randoms == 0..59

allTokensLocked(st) ==
    LET mine == playerTokens(st, st.players[st.currentPlayerIndex].id)
    IN  mine # {} /\ \A t \in mine : st.tokens[t].status = "BASE"

(* a variant of the draw that takes no account of the tokens in BASE *)
rollForUnweighted(st, random) == (random * 6) \div Cardinality(Randoms) + 1

(* the roll setDiceRoll computes from Math.random() falling in cell random *)
rollFor(st, random) ==
    LET cells == Cardinality(Randoms)
    IN  IF allTokensLocked(st)
        THEN IF random * 100 < 25 * cells
             THEN 6
             ELSE (random * 100 - 25 * cells) \div (15 * cells) + 1
        ELSE (random * 6) \div cells + 1

setDiceRoll(st, roll) == applyRoll(st, roll)

setDiceRollValue(st, value) ==
    IF value < 1 \/ value > 6 THEN st ELSE applyRoll(st, value)


---------------------------------------------------------------------------
(* collectPowerUp / discardPowerUp *)

RemoveAt(seq, i) == SubSeq(seq, 1, i - 1) \o SubSeq(seq, i + 1, Len(seq))

(* a variant of the capacity test that lets a fourth power-up in *)
inventoryFullAbove(player) == Len(player.powerUps) > MaxInventory

inventoryFull(player) == Len(player.powerUps) >= MaxInventory

(* a variant of collectPowerUp that leaves the collected power-up on the board *)
collectPowerUpLeavingBoard(st, position, playerId) ==
    LET playerIndex == findIndex(st, playerId)
    IN  IF playerIndex = -1 THEN st
        ELSE IF position \notin DOMAIN st.powerUpsOnBoard THEN st
        ELSE LET player == st.players[playerIndex]
             IN  IF inventoryFull(player)
                 THEN [ st EXCEPT
                          !.phase = "POWERUP_DISCARD",
                          !.pendingPowerUpCollection =
                              << [ position |-> position, playerId |-> playerId ] >> ]
                 ELSE [ st EXCEPT
                          !.players[playerIndex].powerUps =
                              Append(player.powerUps, st.powerUpsOnBoard[position]) ]

collectPowerUp(st, position, playerId) ==
    LET playerIndex == findIndex(st, playerId)
    IN  IF playerIndex = -1 THEN st
        ELSE IF position \notin DOMAIN st.powerUpsOnBoard THEN st
        ELSE LET player == st.players[playerIndex]
                 powerUp == st.powerUpsOnBoard[position]
             IN  IF inventoryFull(player)
                 THEN [ st EXCEPT
                          !.phase = "POWERUP_DISCARD",
                          !.pendingPowerUpCollection =
                              << [ position |-> position, playerId |-> playerId ] >> ]
                 ELSE [ st EXCEPT
                          !.players[playerIndex].powerUps = Append(player.powerUps, powerUp),
                          !.powerUpsOnBoard =
                              [ q \in (DOMAIN st.powerUpsOnBoard) \ {position} |->
                                  st.powerUpsOnBoard[q] ] ]

(* a variant of discardPowerUp that removes the entry and leaves the blocked *)
(* collection where it was                                                  *)
discardPowerUpOnly(st, playerId, powerUpIndex) ==
    LET playerIndex == findIndex(st, playerId)
    IN  IF playerIndex = -1 THEN st
        ELSE IF powerUpIndex < 0 \/ powerUpIndex >= Len(st.players[playerIndex].powerUps)
             THEN st
        ELSE [ st EXCEPT !.players[playerIndex].powerUps =
                             RemoveAt(st.players[playerIndex].powerUps, powerUpIndex + 1) ]

discardPowerUp(st, playerId, powerUpIndex) ==
    LET playerIndex == findIndex(st, playerId)
    IN  IF playerIndex = -1 THEN st
        ELSE LET player == st.players[playerIndex]
             IN  IF powerUpIndex < 0 \/ powerUpIndex >= Len(player.powerUps) THEN st
                 ELSE LET removed ==
                              [ st EXCEPT !.players[playerIndex].powerUps =
                                              RemoveAt(player.powerUps, powerUpIndex + 1) ]
                      IN  IF st.pendingPowerUpCollection # << >>
                          THEN LET pending == st.pendingPowerUpCollection[1]
                                   collected == collectPowerUp(removed, pending.position,
                                                               pending.playerId)
                               IN  [ collected EXCEPT
                                       !.pendingPowerUpCollection = << >>,
                                       !.phase = "ROLLING" ]
                          ELSE removed

---------------------------------------------------------------------------
(* moveToken *)

(* the die value a queued double-move or exact-move turns into *)
effectiveRollOf(token, dice) ==
    IF token.exactMoveValue # NoExact THEN token.exactMoveValue
    ELSE IF token.doubleMoveNext THEN dice * 2
    ELSE dice

(* newTokens[tokenId] after the one-shot flags the move has read are reset *)
clearOneShots(token) ==
    [ token EXCEPT !.doubleMoveNext = FALSE, !.exactMoveValue = NoExact ]

(* a variant of the target square that runs off the end of the track *)
trackTargetUnwrapped(token, effectiveRoll, trackLen) ==
    LET direction == IF token.isReversed THEN -1 ELSE 1
    IN  token.position + (effectiveRoll * direction)

trackTarget(token, effectiveRoll, trackLen) ==
    LET direction == IF token.isReversed THEN -1 ELSE 1
    IN  (token.position + (effectiveRoll * direction) + trackLen) % trackLen

(* a variant of the entry check that also turns into the lane on landing  *)
(* exactly on the turning index                                            *)
homeStretchEntryOnLanding(token, playerIndex, pc, effectiveRoll) ==
    LET trackLen == getTrackLength(pc)
        distanceToTurning == (getTurningIndex(playerIndex, pc) - token.position + trackLen)
                             % trackLen
    IN  IF ~token.isReversed /\ distanceToTurning <= effectiveRoll
        THEN [ entered |-> TRUE,
               remainingSteps |-> Max(1, effectiveRoll - distanceToTurning) ]
        ELSE [ entered |-> FALSE, remainingSteps |-> 0 ]

(* [entered, remainingSteps] of the home-stretch entry check *)
homeStretchEntry(token, playerIndex, pc, effectiveRoll) ==
    LET trackLen == getTrackLength(pc)
        startPos == getStartPosition(playerIndex, pc)
        oldPos == token.position
        turningIndex == getTurningIndex(playerIndex, pc)
        skippedIndex == getSkippedIndex(playerIndex, pc)
        distanceToTurning == (turningIndex - oldPos + trackLen) % trackLen
        stay == [ entered |-> FALSE, remainingSteps |-> 0 ]
    IN  IF token.isReversed THEN stay
        ELSE IF oldPos = turningIndex
             THEN [ entered |-> TRUE, remainingSteps |-> effectiveRoll ]
        ELSE IF oldPos = (turningIndex - 1 + trackLen) % trackLen
             THEN IF effectiveRoll >= 2
                  THEN [ entered |-> TRUE, remainingSteps |-> effectiveRoll - 1 ]
                  ELSE stay
        ELSE IF oldPos # startPos /\ oldPos # turningIndex /\ oldPos # skippedIndex
             THEN IF distanceToTurning < effectiveRoll /\ distanceToTurning > 0
                  THEN [ entered |-> TRUE,
                         remainingSteps |-> effectiveRoll - distanceToTurning ]
                  ELSE stay
        ELSE stay

(* the first other ACTIVE token on newPos in key order, or Undef *)
collisionTokenId(st, tokenId, newPos) ==
    LET hits == { t \in DOMAIN st.tokens :
                    /\ st.tokens[t].position = newPos
                    /\ st.tokens[t].status = "ACTIVE"
                    /\ t # tokenId }
    IN  IF hits = {} THEN Undef
        ELSE CHOOSE t \in hits : \A u \in hits : t <= u

(* isSafe of the capture check *)
isSafe(token, newPos, pc) ==
    isSafeZone(newPos, pc) \/ token.safePassageMovesRemaining > 0

(* a variant of the protection test that protects nothing *)
isProtectedNever(collisionToken) == FALSE

isProtected(collisionToken) ==
    collisionToken.isInvulnerable \/ collisionToken.isImmune

(* "none", "blocked" (hitInvulnerable) or "capture" *)
captureOutcome(st, token, tokenId, newPos) ==
    LET c == collisionTokenId(st, tokenId, newPos)
    IN  IF token.isPhased \/ c = Undef THEN "none"
        ELSE IF st.tokens[c].playerId # token.playerId /\ ~isSafe(token, newPos, st.playerCount)
             THEN IF isProtected(st.tokens[c]) THEN "blocked" ELSE "capture"
        ELSE "none"

(* a variant of the decrement that runs the shield down and leaves its flag *)
decrementCountersKeepingFlag(t) ==
    [ t EXCEPT !.shieldTurnsRemaining = Max(0, t.shieldTurnsRemaining - 1) ]

(* the counters of one token of the mover after the move *)
decrementCounters(t) ==
    LET a == IF t.shieldTurnsRemaining > 0
             THEN [ t EXCEPT !.shieldTurnsRemaining = t.shieldTurnsRemaining - 1,
                             !.isInvulnerable =
                                 IF t.shieldTurnsRemaining - 1 <= 0 THEN FALSE
                                 ELSE t.isInvulnerable ]
             ELSE t
        b == IF t.frozenTurnsRemaining > 0
             THEN [ t EXCEPT !.frozenTurnsRemaining = t.frozenTurnsRemaining - 1 ]
             ELSE a
        c == IF t.phasedTurnsRemaining > 0
             THEN [ t EXCEPT !.phasedTurnsRemaining = t.phasedTurnsRemaining - 1,
                             !.isPhased =
                                 IF t.phasedTurnsRemaining - 1 <= 0 THEN FALSE
                                 ELSE t.isPhased ]
             ELSE b
        d == IF t.immunityTurnsRemaining > 0
             THEN [ t EXCEPT !.immunityTurnsRemaining = t.immunityTurnsRemaining - 1,
                             !.isImmune =
                                 IF t.immunityTurnsRemaining - 1 <= 0 THEN FALSE
                                 ELSE t.isImmune ]
             ELSE c
    IN  IF t.safePassageMovesRemaining > 0
        THEN [ d EXCEPT !.safePassageMovesRemaining = t.safePassageMovesRemaining - 1 ]
        ELSE d

(* the token moved from BASE: [ok, tokens, players-side store, shouldEndTurn] *)
moveFromBase(st, tokenId) ==
    LET token == st.tokens[tokenId]
    IN  [ ok |-> st.diceRoll = 6,
          store |-> st,
          newTokens |-> [ st.tokens EXCEPT ![tokenId] =
                            [ token EXCEPT !.status = "ACTIVE",
                                           !.position = getStartPosition(
                                               st.currentPlayerIndex, st.playerCount) ] ],
          shouldEndTurn |-> FALSE ]

(* a variant of the lane move in which a token that overshoots the centre  *)
(* bounces back by the excess                                              *)
moveHomeStretchBouncing(st, tokenId) ==
    LET token == st.tokens[tokenId]
        homePos == IF token.position < 0 \/ token.position > 5 THEN 0 ELSE token.position
        newHomePos == homePos + effectiveRollOf(token, st.diceRoll)
    IN  IF newHomePos = LaneEnd
        THEN [ ok |-> TRUE, store |-> st,
               newTokens |-> [ st.tokens EXCEPT ![tokenId] =
                                 [ token EXCEPT !.status = "FINISHED",
                                                !.position = LaneEnd ] ],
               shouldEndTurn |-> TRUE ]
        ELSE [ ok |-> TRUE, store |-> st,
               newTokens |-> [ st.tokens EXCEPT ![tokenId] =
                                 [ token EXCEPT !.position =
                                     IF newHomePos > LaneEnd
                                     THEN Max(0, 2 * LaneEnd - newHomePos)
                                     ELSE newHomePos ] ],
               shouldEndTurn |-> st.diceRoll # 6 ]

moveActive(st, tokenId) ==
    LET token == st.tokens[tokenId]
        pc == st.playerCount
        trackLen == getTrackLength(pc)
        playerIndex == findIndex(st, token.playerId)
        effectiveRoll == effectiveRollOf(token, st.diceRoll)
        newPos == trackTarget(token, effectiveRoll, trackLen)
        entry == homeStretchEntry(token, playerIndex, pc, effectiveRoll)
        homeStretchPos == Max(0, entry.remainingSteps - 1)
        outcome == captureOutcome(st, token, tokenId, newPos)
        c == collisionTokenId(st, tokenId, newPos)
        captured == IF outcome = "capture"
                    THEN [ st.tokens EXCEPT ![c] =
                             [ st.tokens[c] EXCEPT !.status = "BASE", !.position = -1 ] ]
                    ELSE st.tokens
        collected == IF isPowerUpZone(newPos, pc) /\ newPos \in DOMAIN st.powerUpsOnBoard
                     THEN collectPowerUp(st, newPos, token.playerId)
                     ELSE st
    IN  IF entry.entered
        THEN IF homeStretchPos >= LaneEnd \/ entry.remainingSteps >= 6
             THEN [ ok |-> TRUE, store |-> st,
                    newTokens |-> [ st.tokens EXCEPT ![tokenId] =
                                      [ token EXCEPT !.status = "FINISHED",
                                                     !.position = LaneEnd ] ],
                    shouldEndTurn |-> TRUE ]
             ELSE [ ok |-> TRUE, store |-> st,
                    newTokens |-> [ st.tokens EXCEPT ![tokenId] =
                                      [ token EXCEPT !.status = "HOME_STRETCH",
                                                     !.position = homeStretchPos ] ],
                    shouldEndTurn |-> st.diceRoll # 6 ]
        ELSE [ ok |-> TRUE, store |-> collected,
               newTokens |-> [ captured EXCEPT ![tokenId] =
                                 [ clearOneShots(token) EXCEPT !.isReversed = FALSE,
                                                               !.position = newPos ] ],
               shouldEndTurn |->
                   IF st.diceRoll = 6 /\ outcome # "blocked" THEN FALSE
                   ELSE outcome # "capture" ]

moveHomeStretch(st, tokenId) ==
    LET token == st.tokens[tokenId]
        homePos == IF token.position < 0 \/ token.position > 5 THEN 0 ELSE token.position
        newHomePos == homePos + effectiveRollOf(token, st.diceRoll)
    IN  IF newHomePos >= LaneEnd
        THEN [ ok |-> TRUE, store |-> st,
               newTokens |-> [ st.tokens EXCEPT ![tokenId] =
                                 [ token EXCEPT !.status = "FINISHED",
                                                !.position = LaneEnd ] ],
               shouldEndTurn |-> TRUE ]
        ELSE [ ok |-> TRUE, store |-> st,
               newTokens |-> [ st.tokens EXCEPT ![tokenId] =
                                 [ token EXCEPT !.position = newHomePos ] ],
               shouldEndTurn |-> st.diceRoll # 6 ]

(* a FINISHED token takes none of the three branches *)
moveFinished(st, tokenId) ==
    [ ok |-> TRUE, store |-> st, newTokens |-> st.tokens, shouldEndTurn |-> TRUE ]

(* a variant of the early returns that lets a frozen token move *)
moveRejectedUnlessFrozen(st, tokenId) ==
    \/ ~hasToken(st, tokenId)
    \/ st.diceRoll = NoDice
    \/ ~hasPlayer(st, st.currentPlayerIndex)
    \/ st.tokens[tokenId].playerId # st.players[st.currentPlayerIndex].id

(* whether moveToken returns before it changes anything *)
moveRejected(st, tokenId) ==
    \/ ~hasToken(st, tokenId)
    \/ st.diceRoll = NoDice
    \/ ~hasPlayer(st, st.currentPlayerIndex)
    \/ st.tokens[tokenId].playerId # st.players[st.currentPlayerIndex].id
    \/ st.tokens[tokenId].frozenTurnsRemaining > 0

(* moveToken up to its final nextTurn: [store, advance] *)
moveStep(st, tokenId) ==
    IF moveRejected(st, tokenId) THEN [ store |-> st, advance |-> FALSE ]
    ELSE
    LET token == st.tokens[tokenId]
        m == CASE token.status = "BASE" -> moveFromBase(st, tokenId)
               [] token.status = "ACTIVE" -> moveActive(st, tokenId)
               [] token.status = "HOME_STRETCH" -> moveHomeStretch(st, tokenId)
               [] OTHER -> moveFinished(st, tokenId)
        mover == st.players[st.currentPlayerIndex].id
        decremented == [ t \in DOMAIN m.newTokens |->
                           IF m.newTokens[t].playerId = mover
                           THEN decrementCounters(m.newTokens[t])
                           ELSE m.newTokens[t] ]
        pending == m.store.pendingPowerUpCollection # << >>
    IN  IF ~m.ok THEN [ store |-> st, advance |-> FALSE ]
        ELSE [ store |-> [ m.store EXCEPT
                             !.tokens = decremented,
                             !.phase = IF pending THEN "POWERUP_DISCARD" ELSE "ROLLING",
                             !.diceRoll = NoDice ],
               advance |-> m.shouldEndTurn /\ ~pending ]

moveTokenBatches(st, tokenId) ==
    LET m == moveStep(st, tokenId)
    IN  IF m.advance THEN nextTurnBatches(m.store) ELSE { NoBatch }

(* a variant of moveToken whose advance passes over a seat *)
moveTokenAdvancingTwice(st, tokenId, batch) ==
    LET m == moveStep(st, tokenId)
    IN  IF m.advance THEN nextTurn(nextTurn(m.store, batch), NoBatch) ELSE m.store

moveToken(st, tokenId, batch) ==
    LET m == moveStep(st, tokenId)
    IN  IF m.advance THEN nextTurn(m.store, batch) ELSE m.store


---------------------------------------------------------------------------
(* activatePowerUp.  a is the argument record [playerId, powerUpIndex,     *)
(* targetTokenId, targetPosition, targetPlayerId, targetDiceValue];        *)
(* stolenIndex is the draw of STEAL_POWERUP.                               *)

firstActiveOf(st, playerId) ==
    LET mine == { t \in DOMAIN st.tokens :
                    st.tokens[t].playerId = playerId /\ st.tokens[t].status = "ACTIVE" }
    IN  IF mine = {} THEN Undef ELSE CHOOSE t \in mine : \A u \in mine : t <= u

ownToken(st, a) ==
    hasToken(st, a.targetTokenId) /\ st.tokens[a.targetTokenId].playerId = a.playerId

ownActive(st, a) ==
    ownToken(st, a) /\ st.tokens[a.targetTokenId].status = "ACTIVE"

opposingActive(st, a) ==
    /\ hasToken(st, a.targetTokenId)
    /\ st.tokens[a.targetTokenId].playerId # a.playerId
    /\ st.tokens[a.targetTokenId].status = "ACTIVE"

unused(st) == [ used |-> FALSE, needsSelection |-> FALSE,
                tokens |-> st.tokens, players |-> st.players ]

select(st) == [ unused(st) EXCEPT !.needsSelection = TRUE ]

onToken(st, a, token) ==
    [ unused(st) EXCEPT !.used = TRUE,
                        !.tokens = [ st.tokens EXCEPT ![a.targetTokenId] = token ] ]

(* the effect of the power-up of type ty: [used, needsSelection, tokens, players] *)
powerUpEffect(st, ty, a, stolenIndex) ==
    LET tid == a.targetTokenId
        given == tid # Undef
        tok == st.tokens[tid]
        trackLen == getTrackLength(st.playerCount)
        playerIndex == findIndex(st, a.playerId)
    IN  CASE ty = "TELEPORT" ->
               IF a.targetPosition # Undef /\ given
               THEN IF ownActive(st, a) /\ a.targetPosition >= 0 /\ a.targetPosition < trackLen
                    THEN onToken(st, a, [ tok EXCEPT !.position = a.targetPosition ])
                    ELSE unused(st)
               ELSE select(st)
          [] ty = "DOUBLE_MOVE" /\ given ->
               IF ownToken(st, a)
               THEN onToken(st, a, [ tok EXCEPT !.doubleMoveNext = TRUE ])
               ELSE unused(st)
          [] ty = "EXACT_MOVE" ->
               IF a.targetDiceValue # Undef /\ given
               THEN IF ownToken(st, a) /\ a.targetDiceValue >= 1 /\ a.targetDiceValue <= 6
                    THEN onToken(st, a, [ tok EXCEPT !.exactMoveValue = a.targetDiceValue ])
                    ELSE unused(st)
               ELSE select(st)
          [] ty = "WARP" /\ given ->
               IF ownActive(st, a)
               THEN onToken(st, a, [ tok EXCEPT !.position = (tok.position + 10) % trackLen ])
               ELSE unused(st)
          [] ty = "BACKWARDS_DASH" /\ given ->
               IF ownActive(st, a)
               THEN onToken(st, a,
                        [ tok EXCEPT !.position = (tok.position - 5 + trackLen) % trackLen ])
               ELSE unused(st)
          [] ty = "HOME_STRETCH_TELEPORT" /\ given ->
               IF ownActive(st, a)
               THEN onToken(st, a,
                        [ tok EXCEPT !.position = getTurningIndex(playerIndex, st.playerCount) ])
               ELSE unused(st)
          [] ty = "SEND_BACK" /\ given ->
               IF opposingActive(st, a) /\ ~tok.isImmune
               THEN onToken(st, a, [ tok EXCEPT !.status = "BASE", !.position = -1 ])
               ELSE unused(st)
          [] ty = "FREEZE" /\ given ->
               IF /\ hasToken(st, tid)
                  /\ tok.playerId # a.playerId
                  /\ tok.status # "BASE"
                  /\ ~tok.isImmune
               THEN onToken(st, a, [ tok EXCEPT !.frozenTurnsRemaining = 2 ])
               ELSE unused(st)
          [] ty = "STEAL_POWERUP" /\ a.targetPlayerId # Undef ->
               LET targetPlayerIndex == findIndex(st, a.targetPlayerId)
               IN  IF /\ targetPlayerIndex # -1
                      /\ targetPlayerIndex # playerIndex
                      /\ Len(st.players[targetPlayerIndex].powerUps) > 0
                   THEN LET targetPlayer == st.players[targetPlayerIndex]
                            stolenPowerUp == targetPlayer.powerUps[stolenIndex + 1]
                        IN  [ unused(st) EXCEPT
                                !.used = TRUE,
                                !.players =
                                    [ st.players EXCEPT
                                        ![targetPlayerIndex].powerUps =
                                            RemoveAt(targetPlayer.powerUps, stolenIndex + 1),
                                        ![playerIndex].powerUps =
                                            Append(st.players[playerIndex].powerUps,
                                                   stolenPowerUp) ] ]
                   ELSE unused(st)
          [] ty = "MAGNET" /\ given ->
               IF /\ firstActiveOf(st, a.playerId) # Undef
                  /\ opposingActive(st, a)
                  /\ ~tok.isImmune
               THEN onToken(st, a,
                        [ tok EXCEPT !.position = (tok.position - 3 + trackLen) % trackLen ])
               ELSE unused(st)
          [] ty = "IMMUNITY" /\ given ->
               IF ownToken(st, a)
               THEN onToken(st, a, [ tok EXCEPT !.isImmune = TRUE,
                                                !.immunityTurnsRemaining = 3 ])
               ELSE unused(st)
          [] ty = "PHASE" /\ given ->
               IF ownToken(st, a)
               THEN onToken(st, a, [ tok EXCEPT !.isPhased = TRUE,
                                                !.phasedTurnsRemaining = 1 ])
               ELSE unused(st)
          [] ty = "SAFE_PASSAGE" /\ given ->
               IF ownToken(st, a)
               THEN onToken(st, a, [ tok EXCEPT !.safePassageMovesRemaining = 3 ])
               ELSE unused(st)
          [] ty = "EXTRA_TURN" -> [ unused(st) EXCEPT !.used = TRUE ]
          [] ty = "BONUS_ROLL" -> [ unused(st) EXCEPT !.used = TRUE ]
          [] ty = "DICE_LOCK" /\ a.targetPlayerId # Undef -> [ unused(st) EXCEPT !.used = TRUE ]
          [] ty = "SWAP_DICE" /\ a.targetPlayerId # Undef -> [ unused(st) EXCEPT !.used = TRUE ]
          [] ty = "SHIELD" /\ given ->
               IF ownToken(st, a)
               THEN onToken(st, a, [ tok EXCEPT !.isInvulnerable = TRUE,
                                                !.shieldTurnsRemaining = 2 ])
               ELSE unused(st)
          [] ty = "REVERSE" /\ given ->
               IF ownToken(st, a)
               THEN onToken(st, a, [ tok EXCEPT !.isReversed = TRUE ])
               ELSE unused(st)
          [] ty = "SWAP" /\ given ->
               LET sourceTokenId == firstActiveOf(st, a.playerId)
               IN  IF sourceTokenId # Undef /\ opposingActive(st, a) /\ ~tok.isImmune
                   THEN [ unused(st) EXCEPT
                            !.used = TRUE,
                            !.tokens =
                                [ st.tokens EXCEPT
                                    ![sourceTokenId].position = tok.position,
                                    ![tid].position = st.tokens[sourceTokenId].position ] ]
                   ELSE unused(st)
          [] OTHER -> unused(st)

(* a variant of the early returns that ignores powerUpUsedThisTurn *)
activationRejectedNeverUsed(st, a) ==
    \/ ~hasPlayer(st, st.currentPlayerIndex)
    \/ st.players[st.currentPlayerIndex].id # a.playerId
    \/ findIndex(st, a.playerId) = -1
    \/ a.powerUpIndex < 0
    \/ a.powerUpIndex >= Len(st.players[findIndex(st, a.playerId)].powerUps)

(* the early returns of activatePowerUp *)
activationRejected(st, a) ==
    \/ st.powerUpUsedThisTurn
    \/ ~hasPlayer(st, st.currentPlayerIndex)
    \/ st.players[st.currentPlayerIndex].id # a.playerId
    \/ findIndex(st, a.playerId) = -1
    \/ a.powerUpIndex < 0
    \/ a.powerUpIndex >= Len(st.players[findIndex(st, a.playerId)].powerUps)

activatePowerUp(st, a, stolenIndex) ==
    IF activationRejected(st, a) THEN st
    ELSE
    LET playerIndex == findIndex(st, a.playerId)
        player == st.players[playerIndex]
        powerUp == player.powerUps[a.powerUpIndex + 1]
        e == powerUpEffect(st, powerUp.type, a, stolenIndex)
    IN  IF e.needsSelection
        THEN [ st EXCEPT
                 !.phase = "POWERUP_SELECTION",
                 !.pendingPowerUpSelection =
                     << [ powerUpType |-> powerUp.type,
                          powerUpIndex |-> a.powerUpIndex,
                          playerId |-> a.playerId ] >> ]
        ELSE IF e.used
        THEN [ st EXCEPT
                 !.tokens = e.tokens,
                 !.players = [ e.players EXCEPT ![playerIndex].powerUps =
                                 RemoveAt(player.powerUps, a.powerUpIndex + 1) ],
                 !.powerUpUsedThisTurn = TRUE,
                 !.pendingPowerUpSelection = << >> ]
        ELSE st

(* the draws STEAL_POWERUP may make in store st for arguments a *)
stealDraws(st, a) ==
    IF hasPlayer(st, a.targetPlayerId) /\ Len(st.players[a.targetPlayerId].powerUps) > 0
    THEN 0..(Len(st.players[a.targetPlayerId].powerUps) - 1)
    ELSE { 0 }


---------------------------------------------------------------------------
(* The commands as actions.  Each command runs to completion (the store is *)
(* synchronous); cmd and pre keep what ran and the store it found until    *)
(* the caller looks away (Settle), so that a property of one command is a  *)
(* property of a state.  The inputs come from small sets.                  *)

NoSuchToken == 99
PlayerCounts == { 2, 3, 4 }
RollValues == { 0, 6, 7 }
TeleportPositions == { 17, 52 }
ExactValues == { 3, 7 }
TargetsPerPlayer == 2

NoArgs ==
    [ tokenId |-> Undef, playerId |-> Undef, powerUpIndex |-> Undef,
      targetTokenId |-> Undef, targetPosition |-> Undef,
      targetPlayerId |-> Undef, targetDiceValue |-> Undef, value |-> Undef ]

Idle == [ op |-> "idle", a |-> NoArgs ]

(* a caller may issue a command *)
ready == cmd.op = "idle" /\ steps < MaxSteps

(* a turn ends where its move resolves (moveToken, or the discard that a  *)
(* move left pending) or the turn is advanced or the game restarted        *)
turnResolved(op, st) ==
    \/ op \in { "initGame", "nextTurn", "timer" }
    \/ op = "moveToken" /\ st # get
    \/ op = "discardPowerUp" /\ pendingPowerUpCollection # << >> /\ st # get

ran(op, a, st) ==
    /\ set(st)
    /\ cmd' = [ op |-> op, a |-> a ]
    /\ pre' = get
    /\ steps' = steps + 1
    /\ consumedThisTurn' =
           IF turnResolved(op, st) THEN 0
           ELSE IF /\ op = "activatePowerUp"
                   /\ a.playerId = currentPlayerIndex
                   /\ Len(st.players[a.playerId].powerUps)
                          < Len(players[a.playerId].powerUps)
                THEN consumedThisTurn + 1
                ELSE consumedThisTurn

Settle ==
    /\ cmd.op # "idle"
    /\ cmd' = Idle
    /\ pre' = get
    /\ UNCHANGED << players, tokens, currentPlayerIndex, diceRoll, phase, playerCount,
                    powerUpsOnBoard, powerUpUsedThisTurn, turnCount,
                    pendingPowerUpCollection, pendingPowerUpSelection, timers, nextId,
                    steps, consumedThisTurn >>

(* the seats a caller acts for: the one to play and the one after it *)
actingPlayers == { currentPlayerIndex, nextPlayerIndex(get) } \cap DOMAIN players

(* the indices a caller passes: those of the inventory and the one past it *)
indicesOf(playerId) == 0..Len(players[playerId].powerUps)

InitGame ==
    /\ ready
    /\ \E n \in PlayerCounts : \E batch \in initBatches(n) :
           ran("initGame", [ NoArgs EXCEPT !.value = n ], initGame(get, n, batch))

SetDiceRoll ==
    /\ ready
    /\ IF hasPlayer(get, currentPlayerIndex)
       THEN \E random \in Randoms :
                LET roll == rollFor(get, random)
                IN  ran("setDiceRoll", [ NoArgs EXCEPT !.value = roll ],
                        setDiceRoll(get, roll))
       ELSE ran("setDiceRoll", NoArgs, get)

SetDiceRollValue ==
    /\ ready
    /\ \E value \in RollValues :
           ran("setDiceRollValue", [ NoArgs EXCEPT !.value = value ],
               setDiceRollValue(get, value))

(* the tokens a caller tries to move: those of the seat to play, the first *)
(* of the next seat and one that does not exist                            *)
movableInputs ==
    { t \in DOMAIN tokens :
        \/ tokens[t].playerId = currentPlayerIndex
        \/ t = TokensPerPlayer * nextPlayerIndex(get) }
    \cup { NoSuchToken }

MoveToken ==
    /\ ready
    /\ \E tokenId \in movableInputs :
           \E batch \in moveTokenBatches(get, tokenId) :
               ran("moveToken", [ NoArgs EXCEPT !.tokenId = tokenId ],
                   moveToken(get, tokenId, batch))

CollectPowerUp ==
    /\ ready
    /\ \E position \in Lowest(DOMAIN powerUpsOnBoard, 1) \cup { 1 } :
           \E playerId \in actingPlayers :
               ran("collectPowerUp",
                   [ NoArgs EXCEPT !.playerId = playerId, !.value = position ],
                   collectPowerUp(get, position, playerId))

DiscardPowerUp ==
    /\ ready
    /\ \E playerId \in actingPlayers : \E powerUpIndex \in indicesOf(playerId) :
           ran("discardPowerUp",
               [ NoArgs EXCEPT !.playerId = playerId, !.powerUpIndex = powerUpIndex ],
               discardPowerUp(get, playerId, powerUpIndex))

NextTurn ==
    /\ ready
    /\ \E batch \in nextTurnBatches(get) :
           ran("nextTurn", NoArgs, nextTurn(get, batch))

(* the callback setDiceRoll schedules on entering SKIPPING *)
TimerFires ==
    /\ ready
    /\ timers > 0
    /\ \E batch \in nextTurnBatches(get) :
           ran("timer", NoArgs, [ nextTurn(get, batch) EXCEPT !.timers = timers - 1 ])

(* the target arguments a caller passes: none, a token, an own token and a *)
(* position, an own token and a die value, or a player                     *)
targetTokens ==
    { t \in DOMAIN tokens : t % TokensPerPlayer < TargetsPerPlayer } \cup { NoSuchToken }

targetArgs(playerId) ==
    LET own == { t \in targetTokens : t # NoSuchToken /\ tokens[t].playerId = playerId }
    IN  { NoArgs }
        \cup { [ NoArgs EXCEPT !.targetTokenId = t ] : t \in targetTokens }
        \cup { [ NoArgs EXCEPT !.targetTokenId = t, !.targetPosition = q ] :
                 t \in own, q \in TeleportPositions }
        \cup { [ NoArgs EXCEPT !.targetTokenId = t, !.targetDiceValue = v ] :
                 t \in own, v \in ExactValues }
        \cup { [ NoArgs EXCEPT !.targetPlayerId = q ] : q \in actingPlayers }

ActivatePowerUp ==
    /\ ready
    /\ \E playerId \in actingPlayers :
       \E powerUpIndex \in indicesOf(playerId) :
       \E t \in targetArgs(playerId) :
           LET a == [ t EXCEPT !.playerId = playerId, !.powerUpIndex = powerUpIndex ]
           IN  \E stolenIndex \in stealDraws(get, a) :
                   ran("activatePowerUp", a, activatePowerUp(get, a, stolenIndex))

Next ==
    \/ InitGame
    \/ SetDiceRoll
    \/ SetDiceRollValue
    \/ MoveToken
    \/ CollectPowerUp
    \/ DiscardPowerUp
    \/ NextTurn
    \/ TimerFires
    \/ ActivatePowerUp
    \/ Settle

---------------------------------------------------------------------------
(* Initial states: the store as constructed, and a game in progress.       *)
(*                                                                         *)
(* MidGame is a 4-player game at turn 15 with seat 2 to roll.  In the last *)
(* round seat 0 used SHIELD on token 0 and moved (2 -> 1), seat 1 used     *)
(* FREEZE on token 0 and moved, its IMMUNITY on token 4 being one round    *)
(* older (3 -> 1), and seat 3 used SAFE_PASSAGE on token 13 and moved      *)
(* (3 -> 2); seat 2 used SHIELD on token 9 and moved (2 -> 1) on its turn  *)
(* before.  Twelve power-ups were spawned so far (6 at init, 2 at turns 4, *)
(* 8 and 12): 3 lie on the board, 4 are held, 5 were used.  From square 16 *)
(* the                                                                     *)
(* six die values take token 8 to an unprotected opponent (17), a shielded *)
(* one (18), a board power-up with the inventory full (19), one under safe *)
(* passage (20), one on a star square (21) and an immune one (22).         *)

at(p, position) == [ newToken(p) EXCEPT !.status = "ACTIVE", !.position = position ]

midGameTokens ==
    [ t \in 0..15 |->
        CASE t = 0 -> [ at(0, 18) EXCEPT !.isInvulnerable = TRUE, !.shieldTurnsRemaining = 1,
                                        !.frozenTurnsRemaining = 2 ]
          [] t = 4 -> [ at(1, 22) EXCEPT !.isImmune = TRUE, !.immunityTurnsRemaining = 1 ]
          [] t = 5 -> [ newToken(1) EXCEPT !.status = "HOME_STRETCH", !.position = 3 ]
          [] t = 8 -> at(2, 16)
          [] t = 9 -> [ at(2, 30) EXCEPT !.isInvulnerable = TRUE, !.shieldTurnsRemaining = 1 ]
          [] t = 10 -> [ newToken(2) EXCEPT !.status = "FINISHED", !.position = 5 ]
          [] t = 12 -> at(3, 17)
          [] t = 13 -> [ at(3, 20) EXCEPT !.safePassageMovesRemaining = 2 ]
          [] t = 14 -> at(3, 21)
          [] OTHER -> newToken(TokenOwner(t)) ]

midGamePlayers ==
    [ i \in 0..3 |->
        [ id |-> i,
          powerUps |->
            CASE i = 2 -> << [ id |-> 2, type |-> "TELEPORT" ],
                             [ id |-> 5, type |-> "SAFE_PASSAGE" ],
                             [ id |-> 7, type |-> "STEAL_POWERUP" ] >>
              [] i = 0 -> << [ id |-> 4, type |-> "SHIELD" ] >>
              [] OTHER -> << >> ] ]

MidGame ==
    [ INITIAL_STATE EXCEPT
        !.players = midGamePlayers,
        !.tokens = midGameTokens,
        !.currentPlayerIndex = 2,
        !.phase = "ROLLING",
        !.powerUpsOnBoard = (19 :> [ id |-> 8, type |-> "SHIELD" ])
                            @@ (3 :> [ id |-> 9, type |-> "TELEPORT" ])
                            @@ (44 :> [ id |-> 10, type |-> "SHIELD" ]),
        !.turnCount = 15,
        !.nextId = 13 ]

InitFrom(st) ==
    /\ holds(st)
    /\ cmd = Idle
    /\ pre = st
    /\ steps = 0
    /\ consumedThisTurn = 0

Init == InitFrom(INITIAL_STATE) \/ InitFrom(MidGame)

Spec == Init /\ [][Next]_vars


---------------------------------------------------------------------------
(* The walk of one token: a 4-player game in which the seat to play has    *)
(* rolled and has one token on the track, at any square, possibly with a   *)
(* double move or an exact move queued on it.  The board holds no power-up *)
(* and the turn count (13) is one at which nextTurn does not respawn.      *)

WalkExactValues == { NoExact, 4 }

walkStore(seat, p, dice, double, exact) ==
    [ INITIAL_STATE EXCEPT
        !.players = [ i \in 0..3 |-> [ id |-> i, powerUps |-> << >> ] ],
        !.tokens = [ t \in 0..15 |->
                       IF t = TokensPerPlayer * seat
                       THEN [ at(seat, p) EXCEPT !.doubleMoveNext = double,
                                                 !.exactMoveValue = exact ]
                       ELSE newToken(TokenOwner(t)) ],
        !.currentPlayerIndex = seat,
        !.diceRoll = dice,
        !.phase = "MOVING",
        !.turnCount = 13,
        !.nextId = 1 ]

InitWalk ==
    \E seat \in 0..3 : \E p \in 0..51 : \E dice \in 1..6 :
    \E double \in BOOLEAN : \E exact \in WalkExactValues :
        InitFrom(walkStore(seat, p, dice, double, exact))

NextWalk == MoveToken \/ Settle

SpecWalk == InitWalk /\ [][NextWalk]_vars

---------------------------------------------------------------------------
(* One activation of each kind: the game in progress with seat 2, the seat *)
(* to play, holding one power-up of any type followed by a SAFE_PASSAGE,   *)
(* and its token 9 on square 47, within a roll of the end of the track.    *)

activationStore(ty) ==
    [ MidGame EXCEPT
        !.players[2].powerUps = << [ id |-> 2, type |-> ty ],
                                   [ id |-> 5, type |-> "SAFE_PASSAGE" ] >>,
        !.tokens[9].position = 47 ]

InitActivate == \E ty \in PowerUpTypes : InitFrom(activationStore(ty))

NextActivate == ActivatePowerUp \/ Settle

SpecActivate == InitActivate /\ [][NextActivate]_vars

---------------------------------------------------------------------------

(* A turn with each kind of power-up: from the same stores, the seat to    *)
(* play activates, rolls and moves.                                        *)

NextPlay == ActivatePowerUp \/ SetDiceRoll \/ MoveToken \/ Settle

SpecPlay == InitActivate /\ [][NextPlay]_vars

---------------------------------------------------------------------------

(* Respawns: the game in progress at turns 13 to 15 with 0 to 8 power-ups  *)
(* on the board, on the lowest or on the highest eligible squares; the     *)
(* turn is advanced, power-ups are collected and the game is restarted.    *)

Highest(S, m) == { x \in S : Cardinality({ y \in S : y > x }) < m }

RespawnTurns == { 13, 14, 15 }

respawnStore(S, turn) ==
    [ MidGame EXCEPT
        !.powerUpsOnBoard =
            [ q \in S |-> [ id |-> 20 + Cardinality({ r \in S : r < q }),
                            type |-> "SHIELD" ] ],
        !.turnCount = turn,
        !.nextId = 20 + Cardinality(S) ]

InitRespawn ==
    \E k \in 0..MaxPowerUpsOnBoard : \E turn \in RespawnTurns :
    \E S \in { Lowest(getPowerUpSpawnPositions(4), k),
               Highest(getPowerUpSpawnPositions(4), k) } :
        InitFrom(respawnStore(S, turn))

NextRespawn == NextTurn \/ CollectPowerUp \/ InitGame \/ Settle

SpecRespawn == InitRespawn /\ [][NextRespawn]_vars

---------------------------------------------------------------------------

(* The home lane: the same game with the token of the seat to play in its  *)
(* home lane, at any lane index, and a second token of that seat on its    *)
(* start square, so that every roll has a legal move.                      *)

laneStore(seat, h, dice, double, exact) ==
    [ walkStore(seat, 0, dice, double, exact) EXCEPT
        !.tokens[TokensPerPlayer * seat].status = "HOME_STRETCH",
        !.tokens[TokensPerPlayer * seat].position = h,
        !.tokens[TokensPerPlayer * seat + 1] = at(seat, getStartPosition(seat, 4)) ]

InitLane ==
    \E seat \in 0..3 : \E h \in 0..(LaneEnd - 1) : \E dice \in 1..6 :
    \E double \in BOOLEAN : \E exact \in WalkExactValues :
        InitFrom(laneStore(seat, h, dice, double, exact))

SpecLane == InitLane /\ [][NextWalk]_vars

---------------------------------------------------------------------------

(* The walk backwards: the same game with REVERSE used on the token, which *)
(* stands on any square but its player's skipped index.                    *)

reverseStore(seat, p, dice) ==
    [ walkStore(seat, p, dice, FALSE, NoExact) EXCEPT
        !.tokens[TokensPerPlayer * seat].isReversed = TRUE ]

InitReverse ==
    \E seat \in 0..3 : \E p \in (0..51) \ { getSkippedIndex(seat, 4) } :
    \E dice \in 1..6 :
        InitFrom(reverseStore(seat, p, dice))

SpecReverse == InitReverse /\ [][NextWalk]_vars

---------------------------------------------------------------------------

(* A turn with a token of the seat to play in its lane or at the centre:   *)
(* the stores of the turn above with token 9 of seat 2 at lane index 1 or  *)
(* 3, or FINISHED at 5.                                                    *)

ProgressLanes == { 1, 3, LaneEnd }

progressStore(ty, h) ==
    [ activationStore(ty) EXCEPT
        !.tokens[9].status = IF h = LaneEnd THEN "FINISHED" ELSE "HOME_STRETCH",
        !.tokens[9].position = h ]

InitProgress ==
    \E ty \in PowerUpTypes : \E h \in ProgressLanes : InitFrom(progressStore(ty, h))

SpecProgress == InitProgress /\ [][NextPlay]_vars

---------------------------------------------------------------------------

(* A turn with PHASE: the stores of the turn above with PHASE in hand and  *)
(* token 8 either plain or immune for one more move (IMMUNITY used on it   *)
(* two turns of seat 2 earlier, 3 -> 1).                                   *)

phaseStore(immune) ==
    [ activationStore("PHASE") EXCEPT
        !.tokens[8].isImmune = immune,
        !.tokens[8].immunityTurnsRemaining = IF immune THEN 1 ELSE 0 ]

InitPhase == \E immune \in BOOLEAN : InitFrom(phaseStore(immune))

SpecPhase == InitPhase /\ [][NextPlay]_vars

---------------------------------------------------------------------------

(* Properties.  cmd, pre and the store describe the command that has just  *)
(* run: what it was given, what it found and what it left.                 *)

(* moveToken has just moved token cmd.a.tokenId (it did not return early) *)
moved ==
    /\ cmd.op = "moveToken"
    /\ ~moveRejected(pre, cmd.a.tokenId)
    /\ ~(pre.tokens[cmd.a.tokenId].status = "BASE" /\ pre.diceRoll # 6)

(* ... along the shared track, from an ACTIVE position to an ACTIVE one *)
movedOnTrack ==
    /\ moved
    /\ pre.tokens[cmd.a.tokenId].status = "ACTIVE"
    /\ tokens[cmd.a.tokenId].status = "ACTIVE"

landing == tokens[cmd.a.tokenId].position

(* the ACTIVE tokens of other players that stood on square q before the move *)
opponentsOn(q) ==
    { t \in DOMAIN pre.tokens :
        /\ pre.tokens[t].status = "ACTIVE"
        /\ pre.tokens[t].position = q
        /\ pre.tokens[t].playerId # pre.tokens[cmd.a.tokenId].playerId }

protectedBefore(t) == pre.tokens[t].isInvulnerable \/ pre.tokens[t].isImmune

(* C1: every player's inventory holds at most 3 power-ups, in every state *)
(* any sequence of commands reaches                                       *)
C1_InventoryBounded ==
    \A p \in DOMAIN players : Len(players[p].powerUps) <= 3

(* a discard has completed the collection a full inventory had blocked *)
C1_Witness ==
    /\ cmd.op = "discardPowerUp"
    /\ pre.pendingPowerUpCollection # << >>
    /\ cmd.a.playerId = pre.pendingPowerUpCollection[1].playerId
    /\ Len(pre.players[cmd.a.playerId].powerUps) = 3
    /\ Len(players[cmd.a.playerId].powerUps) = 3
    /\ pre.pendingPowerUpCollection[1].position \notin DOMAIN powerUpsOnBoard

(* C2: within one turn at most one activatePowerUp consumes a power-up,   *)
(* counting the activations before and after the roll of that turn        *)
C2_OneActivationPerTurn == consumedThisTurn <= 1

(* C3: a move that lands on a non-safe square holding unprotected ACTIVE  *)
(* opposing tokens sends every one of them to BASE and leaves the current *)
(* player in place                                                        *)
C3_LandingCaptures ==
    (/\ movedOnTrack
     /\ ~isSafeZone(landing, pre.playerCount)
     /\ \E t \in opponentsOn(landing) : ~protectedBefore(t))
    => /\ \A t \in opponentsOn(landing) :
              ~protectedBefore(t)
              => tokens[t].status = "BASE" /\ tokens[t].position = -1
       /\ currentPlayerIndex = pre.currentPlayerIndex

(* C4: moveToken never sends to BASE a token that was invulnerable or     *)
(* immune at the time of the move, nor one standing on a safe-zone square *)
C4_ProtectedNeverCaptured ==
    cmd.op = "moveToken"
    => \A t \in DOMAIN pre.tokens :
           (pre.tokens[t].status = "ACTIVE" /\ tokens[t].status = "BASE")
           => /\ ~protectedBefore(t)
              /\ ~isSafeZone(pre.tokens[t].position, pre.playerCount)

(* a move has landed on the square of a protected opposing token, which stays *)
C4_Witness ==
    /\ movedOnTrack
    /\ ~isSafeZone(landing, pre.playerCount)
    /\ \E t \in opponentsOn(landing) :
           /\ protectedBefore(t)
           /\ tokens[t].status = "ACTIVE"
           /\ tokens[t].position = landing

(* C5: an ACTIVE token whose safe-passage counter is positive is never    *)
(* captured by an opposing token's move                                   *)
C5_SafePassageProtects ==
    cmd.op = "moveToken"
    => \A t \in DOMAIN pre.tokens :
           (/\ pre.tokens[t].status = "ACTIVE"
            /\ pre.tokens[t].safePassageMovesRemaining > 0
            /\ hasPlayer(pre, pre.currentPlayerIndex)
            /\ pre.tokens[t].playerId # pre.players[pre.currentPlayerIndex].id)
           => /\ tokens[t].status = "ACTIVE"
              /\ tokens[t].position = pre.tokens[t].position

(* C6: a move that lands on a square occupied by an invulnerable or immune *)
(* opposing ACTIVE token grants no bonus turn, whatever the die value: the *)
(* next player in turn order is current afterwards                         *)
(* (stated for the moves that neither find nor leave a discard request     *)
(* pending, where the turn is resolved by the move itself)                 *)
C6_NoBonusOnProtected ==
    (/\ movedOnTrack
     /\ pre.pendingPowerUpCollection = << >>
     /\ pendingPowerUpCollection = << >>
     /\ \E t \in opponentsOn(landing) : protectedBefore(t))
    => currentPlayerIndex = nextPlayerIndex(pre)

(* C8: a pending discard request fixes the phase to POWERUP_DISCARD and a *)
(* pending selection request fixes it to POWERUP_SELECTION                *)
C8_PendingFixesPhase ==
    /\ pendingPowerUpCollection # << >> => phase = "POWERUP_DISCARD"
    /\ pendingPowerUpSelection # << >> => phase = "POWERUP_SELECTION"

(* C9: the two pending requests are never both active *)
C9_OnePendingRequest ==
    ~(pendingPowerUpCollection # << >> /\ pendingPowerUpSelection # << >>)

(* C10: while a discard or selection request is pending, roll and         *)
(* moveToken leave the whole state unchanged                              *)
C10_PendingBlocksRollAndMove ==
    (/\ cmd.op \in { "setDiceRoll", "setDiceRollValue", "moveToken" }
     /\ (pre.pendingPowerUpCollection # << >> \/ pre.pendingPowerUpSelection # << >>))
    => get = pre

---------------------------------------------------------------------------
(* The walk moveToken is compared with: one square at a time along the     *)
(* shared track to the seat's turning index, then up the private lane.     *)

RECURSIVE walk(_, _, _, _)
walk(status, position, turning, n) ==
    IF n = 0 \/ status = "FINISHED" THEN [ status |-> status, position |-> position ]
    ELSE IF status = "HOME_STRETCH"
         THEN IF position + 1 >= 5 THEN walk("FINISHED", 5, turning, n - 1)
              ELSE walk("HOME_STRETCH", position + 1, turning, n - 1)
    ELSE IF position = turning THEN walk("HOME_STRETCH", 0, turning, n - 1)
    ELSE walk("ACTIVE", (position + 1) % 52, turning, n - 1)

(* the same walk in closed form, d being the distance to the turning index *)
walkEnd(p, turning, r) ==
    LET d == (turning - p + 52) % 52
    IN  IF d < r
        THEN IF r - d - 1 >= 5 THEN [ status |-> "FINISHED", position |-> 5 ]
             ELSE [ status |-> "HOME_STRETCH", position |-> r - d - 1 ]
        ELSE IF d = r THEN [ status |-> "ACTIVE", position |-> turning ]
        ELSE [ status |-> "ACTIVE", position |-> (p + r) % 52 ]

(* moveToken has just moved an ACTIVE token forward on the 4-player board *)
walked ==
    /\ moved
    /\ pre.playerCount = 4
    /\ pre.tokens[cmd.a.tokenId].status = "ACTIVE"
    /\ ~pre.tokens[cmd.a.tokenId].isReversed

walkedFrom == pre.tokens[cmd.a.tokenId].position
walkedRoll == effectiveRollOf(pre.tokens[cmd.a.tokenId], pre.diceRoll)
walkedTurning ==
    getTurningIndex(findIndex(pre, pre.tokens[cmd.a.tokenId].playerId), pre.playerCount)
walkedTo ==
    [ status |-> tokens[cmd.a.tokenId].status,
      position |-> tokens[cmd.a.tokenId].position ]

(* C7: a forward move of an ACTIVE token on the 4-player board ends where *)
(* the step-by-step walk ends: in the lane at r-d-1 (FINISHED at 5 from    *)
(* index 5 on) when d < r, on the turning index when d = r, and at         *)
(* (p + r) mod 52 on the track when d > r                                  *)
C7_MoveIsWalk ==
    walked
    => /\ walkedTo = walkEnd(walkedFrom, walkedTurning, walkedRoll)
       /\ walkedTo = walk("ACTIVE", walkedFrom, walkedTurning, walkedRoll)

(* a token one step before its turning index has rolled 3 and stands on   *)
(* lane index 1                                                            *)
C7_Witness ==
    /\ walked
    /\ (walkedFrom + 1) % 52 = walkedTurning
    /\ walkedRoll = 3
    /\ pre.diceRoll = 3
    /\ walkedTo = [ status |-> "HOME_STRETCH", position |-> 1 ]

---------------------------------------------------------------------------
(* The discard a full inventory asks for *)

movingPlayer == pre.tokens[cmd.a.tokenId].playerId

(* the move landed on a square of the track that is power-up eligible and  *)
(* holds a power-up, its owner holding 3                                   *)
landedOnPowerUpFull ==
    /\ movedOnTrack
    /\ isPowerUpZone(landing, pre.playerCount)
    /\ landing \in DOMAIN pre.powerUpsOnBoard
    /\ Len(pre.players[movingPlayer].powerUps) = 3

(* discardPowerUp was called with a valid index by the player the pending  *)
(* request names, in the state such a move leaves                          *)
discardedForPending ==
    /\ cmd.op = "discardPowerUp"
    /\ pre.pendingPowerUpCollection # << >>
    /\ pre.pendingPowerUpCollection[1].playerId = cmd.a.playerId
    /\ Len(pre.players[cmd.a.playerId].powerUps) = 3
    /\ cmd.a.powerUpIndex \in 0..2
    /\ pre.pendingPowerUpCollection[1].position \in DOMAIN pre.powerUpsOnBoard

---------------------------------------------------------------------------
(* Rolls and the moves they allow *)

rolled == cmd.op \in { "setDiceRoll", "setDiceRollValue" } /\ get # pre

(* some moveToken call on a token of the current player changes the state *)
someTokenMoves ==
    /\ hasPlayer(get, currentPlayerIndex)
    /\ \E t \in playerTokens(get, players[currentPlayerIndex].id) :
           \E batch \in moveTokenBatches(get, t) : moveToken(get, t, batch) # get

(* C12: whenever a roll puts the game in MOVING, some token of the current *)
(* player can be moved; frozen tokens included in the count of what can    *)
(* not                                                                     *)
C12_MovingHasAMove ==
    (rolled /\ phase = "MOVING") => someTokenMoves

---------------------------------------------------------------------------
(* Target selection *)

(* the target arguments that satisfy a TELEPORT or an EXACT_MOVE *)
validTarget(st, ty, a) ==
    /\ hasToken(st, a.targetTokenId)
    /\ st.tokens[a.targetTokenId].playerId = a.playerId
    /\ \/ /\ ty = "TELEPORT"
          /\ st.tokens[a.targetTokenId].status = "ACTIVE"
          /\ a.targetPosition \in 0..(getTrackLength(st.playerCount) - 1)
       \/ /\ ty = "EXACT_MOVE"
          /\ a.targetDiceValue \in 1..6

(* activatePowerUp was re-invoked for the pending selection, target filled in *)
reinvokedWithTarget ==
    /\ cmd.op = "activatePowerUp"
    /\ pre.phase = "POWERUP_SELECTION"
    /\ pre.pendingPowerUpSelection # << >>
    /\ pre.pendingPowerUpSelection[1].playerId = cmd.a.playerId
    /\ pre.pendingPowerUpSelection[1].powerUpIndex = cmd.a.powerUpIndex
    /\ validTarget(pre, pre.pendingPowerUpSelection[1].powerUpType, cmd.a)

(* C13: re-invoking activatePowerUp for the pending selection with a valid *)
(* target consumes the power-up, clears pendingPowerUpSelection and takes  *)
(* the phase out of POWERUP_SELECTION                                      *)
C13_SelectionHasExit ==
    reinvokedWithTarget
    => /\ players[cmd.a.playerId].powerUps =
              RemoveAt(pre.players[cmd.a.playerId].powerUps, cmd.a.powerUpIndex + 1)
       /\ pendingPowerUpSelection = << >>
       /\ phase # "POWERUP_SELECTION"

---------------------------------------------------------------------------
(* The skip delay.  The callback setDiceRoll and setDiceRollValue schedule *)
(* on entering SKIPPING runs once its delay has elapsed, whatever the      *)
(* caller has done: it is no command of the caller and is not counted in   *)
(* steps' bound on them.  The JavaScript event loop runs every callback    *)
(* whose delay has elapsed, hence the weak fairness on it.  The caller     *)
(* issues no command while a callback is outstanding.                      *)

(* a variant of the callback that is dropped without advancing the turn *)
TimerLost ==
    /\ timers > 0
    /\ timers' = timers - 1
    /\ cmd' = [ op |-> "timer", a |-> NoArgs ]
    /\ pre' = get
    /\ UNCHANGED << players, tokens, currentPlayerIndex, diceRoll, phase, playerCount,
                    powerUpsOnBoard, powerUpUsedThisTurn, turnCount,
                    pendingPowerUpCollection, pendingPowerUpSelection, nextId,
                    steps, consumedThisTurn >>

TimerElapses ==
    /\ timers > 0
    /\ \E batch \in nextTurnBatches(get) :
           ran("timer", NoArgs, [ nextTurn(get, batch) EXCEPT !.timers = timers - 1 ])

callerWaits == timers = 0

NextSkip ==
    \/ callerWaits /\ InitGame
    \/ callerWaits /\ SetDiceRoll
    \/ callerWaits /\ SetDiceRollValue
    \/ callerWaits /\ MoveToken
    \/ callerWaits /\ NextTurn
    \/ TimerElapses
    \/ Settle

SpecSkip == Init /\ [][NextSkip]_vars /\ WF_vars(TimerElapses)

(* The delay window.  Between the roll that enters SKIPPING and the        *)
(* callback it scheduled the store is open to every command: the caller's  *)
(* commands and the callback interleave freely.                            *)

NextDelay ==
    \/ InitGame
    \/ SetDiceRoll
    \/ SetDiceRollValue
    \/ MoveToken
    \/ ActivatePowerUp
    \/ NextTurn
    \/ TimerElapses
    \/ Settle

SpecDelay == Init /\ [][NextDelay]_vars

----------------------------------------------------------------------

(* the seat after seat i in turn order, by the spec's table: 0 -> 1 -> 3   *)
(* -> 2 -> 0 with four players, i + 1 mod n otherwise                      *)
seatAfter(i, n) ==
    IF n = 4 THEN CASE i = 0 -> 1 [] i = 1 -> 3 [] i = 3 -> 2 [] OTHER -> 0
    ELSE (i + 1) % n

(* C14: every entry into SKIPPING is followed, with no further command,    *)
(* by the automatic advance: phase ROLLING, the next seat current, the die *)
(* value cleared                                                           *)
C14_SkippingAdvances ==
    \A i \in 0..3 : \A n \in PlayerCounts :
        (phase = "SKIPPING" /\ currentPlayerIndex = i /\ Cardinality(DOMAIN players) = n)
        ~> (/\ cmd.op = "timer"
            /\ phase = "ROLLING"
            /\ currentPlayerIndex = seatAfter(i, n)
            /\ diceRoll = NoDice)

(* the callback has advanced the turn of a game that was in SKIPPING *)
C14_Witness ==
    /\ cmd.op = "timer"
    /\ pre.phase = "SKIPPING"
    /\ pre.diceRoll # NoDice
    /\ phase = "ROLLING"
    /\ diceRoll = NoDice
    /\ currentPlayerIndex = seatAfter(pre.currentPlayerIndex, Cardinality(DOMAIN pre.players))

---------------------------------------------------------------------------
(* Counters and their flags *)

counterFields ==
    { "shieldTurnsRemaining", "frozenTurnsRemaining", "phasedTurnsRemaining",
      "immunityTurnsRemaining", "safePassageMovesRemaining" }

(* C15: after a successful move every positive counter of every token of  *)
(* the moving player is one less, two or more positive counters of one     *)
(* token included, and the flag of a counter that has reached 0 is false   *)
C15_CountersDecrement ==
    moved
    => \A t \in playerTokens(pre, movingPlayer) :
           /\ \A f \in counterFields :
                  pre.tokens[t][f] > 0 => tokens[t][f] = pre.tokens[t][f] - 1
           /\ tokens[t].shieldTurnsRemaining = 0 => ~tokens[t].isInvulnerable
           /\ tokens[t].phasedTurnsRemaining = 0 => ~tokens[t].isPhased
           /\ tokens[t].immunityTurnsRemaining = 0 => ~tokens[t].isImmune

(* C16: in every state every counter of every token is >= 0 and each flag *)
(* agrees with its counter: isInvulnerable iff shieldTurnsRemaining > 0,   *)
(* isPhased iff phasedTurnsRemaining > 0, isImmune iff                     *)
(* immunityTurnsRemaining > 0                                              *)
C16_FlagsAgreeWithCounters ==
    \A t \in DOMAIN tokens :
        /\ \A f \in counterFields : tokens[t][f] >= 0
        /\ tokens[t].isInvulnerable <=> tokens[t].shieldTurnsRemaining > 0
        /\ tokens[t].isPhased <=> tokens[t].phasedTurnsRemaining > 0
        /\ tokens[t].isImmune <=> tokens[t].immunityTurnsRemaining > 0

(* a move has run a shield down to 0 and cleared its flag *)
C16_Witness ==
    /\ moved
    /\ \E t \in playerTokens(pre, movingPlayer) :
           /\ pre.tokens[t].isInvulnerable
           /\ pre.tokens[t].shieldTurnsRemaining = 1
           /\ tokens[t].shieldTurnsRemaining = 0
           /\ ~tokens[t].isInvulnerable

---------------------------------------------------------------------------
(* Turn order *)

seats(st) == Cardinality(DOMAIN st.players)

(* nextTurn has run, as a command or as the skip callback, in a game that  *)
(* has players                                                             *)
advanced == cmd.op \in { "nextTurn", "timer" } /\ seats(pre) >= 1

(* the seat that is current after k advances from seat i of store st *)
RECURSIVE seatAfterAdvances(_, _, _)
seatAfterAdvances(st, i, k) ==
    IF k = 0 THEN i
    ELSE nextPlayerIndex([ st EXCEPT
             !.currentPlayerIndex = seatAfterAdvances(st, i, k - 1) ])

(* C17: an advance maps seat 0 -> 1 -> 3 -> 2 -> 0 with four players and   *)
(* i -> i + 1 mod n otherwise, so the current seat stays in 0..n-1 and n   *)
(* consecutive advances make every seat current exactly once; it clears    *)
(* the die value and the power-up-used flag, sets phase ROLLING and adds   *)
(* exactly one to the turn counter.  Stated for games that have players.   *)
C17_TurnOrder ==
    /\ seats(get) >= 1
       => /\ currentPlayerIndex \in 0..(seats(get) - 1)
          /\ \A i \in 0..(seats(get) - 1) :
                 /\ nextPlayerIndex([ get EXCEPT !.currentPlayerIndex = i ])
                        = seatAfter(i, seats(get))
                 /\ { seatAfterAdvances(get, i, k) : k \in 1..seats(get) }
                        = 0..(seats(get) - 1)
                 /\ seatAfterAdvances(get, i, seats(get)) = i
    /\ advanced
       => /\ currentPlayerIndex = seatAfter(pre.currentPlayerIndex, seats(pre))
          /\ diceRoll = NoDice
          /\ phase = "ROLLING"
          /\ ~powerUpUsedThisTurn
          /\ turnCount = pre.turnCount + 1

(* three advances in a row have taken a 4-player game from seat 2 to seat 3 *)
C17_Witness ==
    /\ advanced
    /\ seats(pre) = 4
    /\ pre.currentPlayerIndex = 1
    /\ currentPlayerIndex = 3
    /\ turnCount = 18

(* C18: a successful move that leaves no discard request pending ends in   *)
(* phase ROLLING with no die value, and either keeps the current seat and  *)
(* the turn counter (bonus turn) or makes the next seat current and adds   *)
(* exactly one to the turn counter                                         *)
C18_MoveResolvesTurn ==
    (moved /\ pendingPowerUpCollection = << >>)
    => /\ phase = "ROLLING"
       /\ diceRoll = NoDice
       /\ \/ /\ currentPlayerIndex = pre.currentPlayerIndex
             /\ turnCount = pre.turnCount
          \/ /\ currentPlayerIndex = seatAfter(pre.currentPlayerIndex, seats(pre))
             /\ turnCount = pre.turnCount + 1

(* a move has passed the turn to the next seat *)
C18_Witness ==
    /\ movedOnTrack
    /\ pendingPowerUpCollection = << >>
    /\ turnCount = pre.turnCount + 1
    /\ currentPlayerIndex = seatAfter(pre.currentPlayerIndex, seats(pre))
    /\ currentPlayerIndex # pre.currentPlayerIndex

---------------------------------------------------------------------------
(* Restart *)

(* the store without the board's power-ups and the ids drawn for them *)
withoutBoard(st) == [ st EXCEPT !.powerUpsOnBoard = << >>, !.nextId = 0 ]

(* C19: initGame(n), called in any state, leaves n players with empty      *)
(* inventories, 4 BASE tokens each with every counter 0 and every flag     *)
(* false, phase ROLLING, seat 0 current, turn counter 0, the power-up-used *)
(* flag false, no pending request and no die value; a second initGame(n)   *)
(* gives the same state but for the board's power-ups                      *)
C19_InitResets ==
    cmd.op = "initGame"
    => LET n == cmd.a.value
       IN  /\ DOMAIN players = 0..(n - 1)
           /\ \A p \in DOMAIN players : players[p].powerUps = << >>
           /\ DOMAIN tokens = 0..(TokensPerPlayer * n - 1)
           /\ \A t \in DOMAIN tokens : tokens[t] = newToken(TokenOwner(t))
           /\ playerCount = n
           /\ phase = "ROLLING"
           /\ currentPlayerIndex = 0
           /\ turnCount = 0
           /\ ~powerUpUsedThisTurn
           /\ pendingPowerUpCollection = << >>
           /\ pendingPowerUpSelection = << >>
           /\ diceRoll = NoDice
           /\ \A batch \in initBatches(n) :
                  withoutBoard(initGame(get, n, batch)) = withoutBoard(get)

---------------------------------------------------------------------------
(* Stealing *)

RECURSIVE heldUpTo(_, _)
(* the power-ups held by the seats below n of the players ps *)
heldUpTo(ps, n) ==
    IF n = 0 THEN 0 ELSE heldUpTo(ps, n - 1) + Len(ps[n - 1].powerUps)

(* the power-ups held by all players of store st *)
heldByAll(st) == heldUpTo(st.players, Cardinality(DOMAIN st.players))

(* the current player activated a STEAL_POWERUP against an opposing player *)
(* who held at least one power-up, no power-up having been used this turn  *)
stoleFromOpponent ==
    /\ cmd.op = "activatePowerUp"
    /\ ~pre.powerUpUsedThisTurn
    /\ hasPlayer(pre, cmd.a.playerId)
    /\ pre.currentPlayerIndex = cmd.a.playerId
    /\ cmd.a.powerUpIndex \in 0..(Len(pre.players[cmd.a.playerId].powerUps) - 1)
    /\ pre.players[cmd.a.playerId].powerUps[cmd.a.powerUpIndex + 1].type = "STEAL_POWERUP"
    /\ hasPlayer(pre, cmd.a.targetPlayerId)
    /\ cmd.a.targetPlayerId # cmd.a.playerId
    /\ Len(pre.players[cmd.a.targetPlayerId].powerUps) > 0

(* C20: a successful STEAL_POWERUP against an opposing player holding a    *)
(* power-up removes exactly one power-up from that player, the caller      *)
(* afterwards holds that power-up appended to an inventory that lost only  *)
(* the STEAL_POWERUP, and the players together hold one power-up fewer     *)
C20_StolenPowerUpIsKept ==
    stoleFromOpponent
    => LET thief  == cmd.a.playerId
           victim == cmd.a.targetPlayerId
       IN  /\ \E i \in 1..Len(pre.players[victim].powerUps) :
                 /\ players[victim].powerUps =
                        RemoveAt(pre.players[victim].powerUps, i)
                 /\ players[thief].powerUps =
                        Append(RemoveAt(pre.players[thief].powerUps,
                                        cmd.a.powerUpIndex + 1),
                               pre.players[victim].powerUps[i])
           /\ heldByAll(get) = heldByAll(pre) - 1

---------------------------------------------------------------------------
(* Activation without a target *)

(* the power-up types activatePowerUp reads targetPlayerId for *)
playerTargeted == { "STEAL_POWERUP", "DICE_LOCK", "SWAP_DICE" }

(* the power-up types activatePowerUp reads no target for *)
untargeted == { "EXTRA_TURN", "BONUS_ROLL" }

(* the arguments a lack a target parameter that the type ty reads *)
targetAbsent(ty, a) ==
    CASE ty \in untargeted -> FALSE
      [] ty \in playerTargeted -> a.targetPlayerId = Undef
      [] ty = "TELEPORT" -> a.targetTokenId = Undef \/ a.targetPosition = Undef
      [] ty = "EXACT_MOVE" -> a.targetTokenId = Undef \/ a.targetDiceValue = Undef
      [] OTHER -> a.targetTokenId = Undef

(* the power-up the command's arguments name in the store before it *)
activated == pre.players[cmd.a.playerId].powerUps[cmd.a.powerUpIndex + 1]

(* the current player activated a held power-up, none used this turn yet *)
activationAccepted ==
    /\ cmd.op = "activatePowerUp"
    /\ ~activationRejected(pre, cmd.a)

(* C21: activating a held power-up of a type that takes a target, without  *)
(* the target parameters the type requires, sets phase POWERUP_SELECTION   *)
(* and pendingPowerUpSelection = (type, index, player) and consumes        *)
(* nothing                                                                 *)
C21_MissingTargetAsksSelection ==
    (activationAccepted /\ targetAbsent(activated.type, cmd.a))
    => /\ phase = "POWERUP_SELECTION"
       /\ pendingPowerUpSelection =
              << [ powerUpType |-> activated.type,
                   powerUpIndex |-> cmd.a.powerUpIndex,
                   playerId |-> cmd.a.playerId ] >>
       /\ players = pre.players

---------------------------------------------------------------------------
(* Declined moves *)

(* moveToken was called with no die value pending, for a token that does   *)
(* not exist, that the current player does not own, that is frozen, or     *)
(* that is in BASE with a die other than 6                                 *)
moveDeclined ==
    /\ cmd.op = "moveToken"
    /\ \/ pre.diceRoll = NoDice
       \/ ~hasToken(pre, cmd.a.tokenId)
       \/ pre.tokens[cmd.a.tokenId].playerId # pre.currentPlayerIndex
       \/ pre.tokens[cmd.a.tokenId].frozenTurnsRemaining > 0
       \/ pre.tokens[cmd.a.tokenId].status = "BASE" /\ pre.diceRoll # 6

(* C22: moveToken leaves the whole store as it was when no die value is    *)
(* pending, the token does not exist, is not the current player's, is      *)
(* frozen, or is in BASE while the die is not 6                            *)
C22_DeclinedMoveChangesNothing ==
    moveDeclined => get = pre

(* a die value is pending and the current player's frozen ACTIVE token is moved *)
C22_Witness ==
    /\ cmd.op = "moveToken"
    /\ pre.diceRoll # NoDice
    /\ hasToken(pre, cmd.a.tokenId)
    /\ pre.tokens[cmd.a.tokenId].playerId = pre.currentPlayerIndex
    /\ pre.tokens[cmd.a.tokenId].status = "ACTIVE"
    /\ pre.tokens[cmd.a.tokenId].frozenTurnsRemaining > 0
    /\ get = pre

---------------------------------------------------------------------------
(* Declined activations *)

ownTokenTypes == { "DOUBLE_MOVE", "IMMUNITY", "PHASE", "SAFE_PASSAGE", "SHIELD", "REVERSE" }
ownActiveTypes == { "WARP", "BACKWARDS_DASH", "HOME_STRETCH_TELEPORT" }
opposingTypes == { "SEND_BACK", "FREEZE", "MAGNET", "SWAP" }

(* the arguments a supply the target the type ty reads, and the target     *)
(* does not meet the type's precondition in store st                       *)
targetViolates(st, ty, a) ==
    LET tid == a.targetTokenId
        exists == hasToken(st, tid)
        own == exists /\ st.tokens[tid].playerId = a.playerId
    IN  /\ ~targetAbsent(ty, a)
        /\ CASE ty = "TELEPORT" ->
                  \/ ~own
                  \/ st.tokens[tid].status # "ACTIVE"
                  \/ a.targetPosition \notin 0..(getTrackLength(st.playerCount) - 1)
             [] ty = "EXACT_MOVE" -> ~own \/ a.targetDiceValue \notin 1..6
             [] ty \in ownTokenTypes -> ~own
             [] ty \in ownActiveTypes -> ~own \/ st.tokens[tid].status # "ACTIVE"
             [] ty \in opposingTypes -> ~exists \/ own \/ st.tokens[tid].isImmune
             [] ty = "STEAL_POWERUP" ->
                  \/ ~hasPlayer(st, a.targetPlayerId)
                  \/ a.targetPlayerId = a.playerId
             [] OTHER -> FALSE

(* activatePowerUp was called after a power-up was used this turn, by a    *)
(* player other than the current one, with an index that names no held     *)
(* power-up, or with a target that violates the type's precondition        *)
activationDeclined ==
    /\ cmd.op = "activatePowerUp"
    /\ \/ pre.powerUpUsedThisTurn
       \/ cmd.a.playerId # pre.currentPlayerIndex
       \/ cmd.a.powerUpIndex \notin 0..(Len(pre.players[cmd.a.playerId].powerUps) - 1)
       \/ targetViolates(pre, activated.type, cmd.a)

(* C23: activatePowerUp leaves the whole store as it was (the power-up     *)
(* stays held, the used flag is not set) when a power-up was already used  *)
(* this turn, the caller is not the current player, the index names no     *)
(* held power-up, or the supplied target violates the type's precondition  *)
C23_DeclinedActivationChangesNothing ==
    activationDeclined => get = pre

(* a SEND_BACK, FREEZE, MAGNET or SWAP was aimed at an immune token of an  *)
(* opponent by the current player, who had used no power-up this turn      *)
C23_Witness ==
    /\ activationAccepted
    /\ activated.type \in opposingTypes
    /\ hasToken(pre, cmd.a.targetTokenId)
    /\ pre.tokens[cmd.a.targetTokenId].playerId # cmd.a.playerId
    /\ pre.tokens[cmd.a.targetTokenId].status = "ACTIVE"
    /\ pre.tokens[cmd.a.targetTokenId].isImmune
    /\ get = pre

---------------------------------------------------------------------------
(* Tokens *)

(* the position of token t is one its status allows on the board in play *)
positionMatchesStatus(t) ==
    CASE t.status = "BASE" -> t.position = -1
      [] t.status = "ACTIVE" -> t.position \in 0..(getTrackLength(playerCount) - 1)
      [] t.status = "HOME_STRETCH" -> t.position \in 0..(LaneEnd - 1)
      [] t.status = "FINISHED" -> t.position = LaneEnd
      [] OTHER -> FALSE

(* C24: in every state the game commands reach, each player has exactly 4  *)
(* tokens, every token belongs to the player it was created for, and each  *)
(* token's position matches its status: BASE -1, ACTIVE on the track,      *)
(* HOME_STRETCH 0..4, FINISHED 5                                           *)
C24_TokensWellFormed ==
    /\ \A p \in DOMAIN players :
           Cardinality({ t \in DOMAIN tokens : tokens[t].playerId = players[p].id })
               = TokensPerPlayer
    /\ \A t \in DOMAIN tokens :
           /\ tokens[t].playerId = TokenOwner(t)
           /\ hasPlayer(get, tokens[t].playerId)
           /\ positionMatchesStatus(tokens[t])

(* a token on which REVERSE was used has moved *)
C24_Witness ==
    /\ moved
    /\ pre.tokens[cmd.a.tokenId].isReversed
    /\ tokens[cmd.a.tokenId].position # pre.tokens[cmd.a.tokenId].position

---------------------------------------------------------------------------
(* Collection *)

(* collectPowerUp was called for a player of the game and a square that    *)
(* held a power-up                                                         *)
collectedFromBoard ==
    /\ cmd.op = "collectPowerUp"
    /\ hasPlayer(pre, cmd.a.playerId)
    /\ cmd.a.value \in DOMAIN pre.powerUpsOnBoard

(* the power-ups lying on the board of store st *)
onBoard(st) == { st.powerUpsOnBoard[q] : q \in DOMAIN st.powerUpsOnBoard }

(* the power-ups held by the players of store st *)
inInventories(st) ==
    UNION { { st.players[p].powerUps[i] : i \in 1..Len(st.players[p].powerUps) } :
              p \in DOMAIN st.players }

(* C25: below capacity collectPowerUp moves exactly the power-up at the    *)
(* position from the board to the end of the player's inventory and        *)
(* changes no other inventory, board entry or token; at capacity it        *)
(* changes neither board nor inventories and records the pending           *)
(* collection (position, player) with phase POWERUP_DISCARD; no power-up   *)
(* is ever both on the board and in an inventory                           *)
C25_CollectMovesOnePowerUp ==
    /\ collectedFromBoard
       => LET p == cmd.a.playerId
              position == cmd.a.value
          IN  IF Len(pre.players[p].powerUps) < MaxInventory
              THEN /\ players = [ pre.players EXCEPT ![p].powerUps =
                                    Append(@, pre.powerUpsOnBoard[position]) ]
                   /\ DOMAIN powerUpsOnBoard = (DOMAIN pre.powerUpsOnBoard) \ { position }
                   /\ \A q \in DOMAIN powerUpsOnBoard :
                          powerUpsOnBoard[q] = pre.powerUpsOnBoard[q]
                   /\ tokens = pre.tokens
              ELSE /\ players = pre.players
                   /\ powerUpsOnBoard = pre.powerUpsOnBoard
                   /\ pendingPowerUpCollection =
                          << [ position |-> position, playerId |-> p ] >>
                   /\ phase = "POWERUP_DISCARD"
    /\ onBoard(get) \cap inInventories(get) = {}

(* a player below capacity has collected the power-up of a square *)
C25_Witness ==
    /\ collectedFromBoard
    /\ Len(pre.players[cmd.a.playerId].powerUps) < MaxInventory
    /\ pre.powerUpsOnBoard[cmd.a.value] \in inInventories(get)

---------------------------------------------------------------------------
(* Respawn *)

(* nextTurn has run at a turn count that calls for a respawn pass *)
respawnPassed ==
    /\ cmd.op = "nextTurn"
    /\ (pre.turnCount + 1) % RespawnPeriod = 0

(* the squares that hold a power-up after the command and held none before *)
spawned == (DOMAIN powerUpsOnBoard) \ (DOMAIN pre.powerUpsOnBoard)

boardCount(st) == Cardinality(DOMAIN st.powerUpsOnBoard)

(* C26: a respawn pass adds power-ups only to a board of fewer than 8, at  *)
(* most min(2, 8 - count) of them, only on eligible spawn positions that   *)
(* were unoccupied, and replaces or removes no power-up of the board; the  *)
(* board never holds more than 8 power-ups                                 *)
C26_RespawnBounded ==
    /\ respawnPassed
       => /\ \A q \in DOMAIN pre.powerUpsOnBoard :
                 /\ q \in DOMAIN powerUpsOnBoard
                 /\ powerUpsOnBoard[q] = pre.powerUpsOnBoard[q]
          /\ spawned \subseteq getPowerUpSpawnPositions(pre.playerCount)
          /\ IF boardCount(pre) < MaxPowerUpsOnBoard
             THEN Cardinality(spawned)
                      <= Min(RespawnBatch, MaxPowerUpsOnBoard - boardCount(pre))
             ELSE spawned = {}
    /\ boardCount(get) <= MaxPowerUpsOnBoard

(* a respawn pass found 7 power-ups on the board and added the eighth *)
C26_Witness ==
    /\ respawnPassed
    /\ boardCount(pre) = MaxPowerUpsOnBoard - 1
    /\ Cardinality(spawned) = 1

---------------------------------------------------------------------------
(* Leaving BASE *)

(* the start squares of the 4-player board, by seat *)
startSquares == << 0, 13, 39, 26 >>

(* the current player moved one of its BASE tokens with a die of 6 *)
leftBase ==
    /\ cmd.op = "moveToken"
    /\ hasToken(pre, cmd.a.tokenId)
    /\ pre.tokens[cmd.a.tokenId].playerId = pre.currentPlayerIndex
    /\ pre.tokens[cmd.a.tokenId].status = "BASE"
    /\ pre.tokens[cmd.a.tokenId].frozenTurnsRemaining = 0
    /\ pre.diceRoll = 6

(* C27: moveToken on a BASE token of the current player with a die of 6    *)
(* makes the token ACTIVE at the player's start index (0, 13, 39, 26 for   *)
(* the seats of the 4-player board), changes no other token, clears the    *)
(* die value and grants a bonus turn: phase ROLLING, same current player,  *)
(* same turn counter                                                       *)
C27_BaseExitGrantsBonus ==
    leftBase
    => LET tid == cmd.a.tokenId
           seat == pre.currentPlayerIndex
       IN  /\ tokens[tid].status = "ACTIVE"
           /\ tokens[tid].position = getStartPosition(seat, pre.playerCount)
           /\ pre.playerCount = 4 => tokens[tid].position = startSquares[seat + 1]
           /\ \A t \in (DOMAIN tokens) \ { tid } : tokens[t] = pre.tokens[t]
           /\ diceRoll = NoDice
           /\ phase = "ROLLING"
           /\ currentPlayerIndex = seat
           /\ turnCount = pre.turnCount

---------------------------------------------------------------------------
(* The die *)

(* the cells of Math.random() for which setDiceRoll rolls v in store st *)
cellsRolling(st, v) == { random \in Randoms : rollFor(st, random) = v }

(* the probability of rolling v in store st is num / den *)
rollsWithProbability(st, v, num, den) ==
    Cardinality(cellsRolling(st, v)) * den = num * Cardinality(Randoms)

(* C28: a roll always gives a die value in 1..6; while every token of the  *)
(* current player is in BASE the value is 6 with probability 0.25 and each *)
(* of 1..5 with probability 0.15, otherwise each of 1..6 has probability   *)
(* 1/6                                                                     *)
C28_RollDistribution ==
    /\ (cmd.op = "setDiceRoll" /\ hasPlayer(pre, pre.currentPlayerIndex))
       => diceRoll \in 1..6
    /\ hasPlayer(get, currentPlayerIndex)
       => /\ \A random \in Randoms : rollFor(get, random) \in 1..6
          /\ IF allTokensLocked(get)
             THEN /\ rollsWithProbability(get, 6, 25, 100)
                  /\ \A v \in 1..5 : rollsWithProbability(get, v, 15, 100)
             ELSE \A v \in 1..6 : rollsWithProbability(get, v, 1, 6)

(* a player with every token in BASE has rolled a 6 *)
C28_Witness ==
    /\ cmd.op = "setDiceRoll"
    /\ hasPlayer(pre, pre.currentPlayerIndex)
    /\ allTokensLocked(pre)
    /\ diceRoll = 6

---------------------------------------------------------------------------
(* One-shot effects *)

(* an ACTIVE or HOME_STRETCH token with a double move or an exact move     *)
(* queued on it has been moved                                             *)
movedWithQueued ==
    /\ moved
    /\ pre.tokens[cmd.a.tokenId].status \in { "ACTIVE", "HOME_STRETCH" }
    /\ \/ pre.tokens[cmd.a.tokenId].doubleMoveNext
       \/ pre.tokens[cmd.a.tokenId].exactMoveValue # NoExact

(* C29: after a move of an ACTIVE or HOME_STRETCH token that had a double  *)
(* move or an exact move queued, the token has doubleMoveNext = false and  *)
(* exactMoveValue = null, also when the move enters the home lane,         *)
(* advances in it or finishes the token; with both queued the exact-move   *)
(* value is the roll the token moves by                                    *)
C29_QueuedEffectsAreOneShot ==
    movedWithQueued
    => LET before == pre.tokens[cmd.a.tokenId]
           after == tokens[cmd.a.tokenId]
       IN  /\ ~after.doubleMoveNext
           /\ after.exactMoveValue = NoExact
           /\ (before.doubleMoveNext /\ before.exactMoveValue # NoExact /\ movedOnTrack)
              => after.position =
                     (before.position + before.exactMoveValue)
                         % getTrackLength(pre.playerCount)

---------------------------------------------------------------------------
(* Deferred turn advancement *)

(* a move with a die other than 6 and without capture has left a discard   *)
(* request pending for the mover                                           *)
moveDeferredTurn ==
    /\ moved
    /\ pre.diceRoll # 6
    /\ \A t \in (DOMAIN tokens) \ { cmd.a.tokenId } :
           tokens[t].status = pre.tokens[t].status
    /\ pre.pendingPowerUpCollection = << >>
    /\ pendingPowerUpCollection # << >>
    /\ pendingPowerUpCollection[1].playerId = movingPlayer

(* C30: when a move that granted no bonus turn leaves a discard request    *)
(* pending, the discardPowerUp that resolves the request passes the turn   *)
(* to the next player in turn order: the mover does not roll again         *)
C30_DiscardPassesTurn ==
    moveDeferredTurn
    => \A powerUpIndex \in 0..(Len(players[movingPlayer].powerUps) - 1) :
           LET resolved == discardPowerUp(get, movingPlayer, powerUpIndex)
           IN  /\ resolved.pendingPowerUpCollection = << >>
               /\ resolved.currentPlayerIndex = nextPlayerIndex(pre)
               /\ resolved.currentPlayerIndex # movingPlayer

---------------------------------------------------------------------------
(* Who resolves a discard request *)

(* discardPowerUp ran while a discard request was pending *)
discardedWhilePending ==
    /\ cmd.op = "discardPowerUp"
    /\ pre.pendingPowerUpCollection # << >>

(* C31: discardPowerUp for a player other than the one a pending discard   *)
(* request names neither clears the request nor changes the phase from     *)
(* POWERUP_DISCARD, and a discard that clears the request has moved the    *)
(* blocking power-up from the board into the pending player's inventory    *)
C31_OnlyPendingPlayerResolves ==
    discardedWhilePending
    => LET request == pre.pendingPowerUpCollection[1]
       IN  /\ cmd.a.playerId # request.playerId
              => /\ pendingPowerUpCollection = pre.pendingPowerUpCollection
                 /\ phase = pre.phase
           /\ (pendingPowerUpCollection = << >>
                  /\ request.position \in DOMAIN pre.powerUpsOnBoard)
              => /\ request.position \notin DOMAIN powerUpsOnBoard
                 /\ \E i \in 1..Len(players[request.playerId].powerUps) :
                        players[request.playerId].powerUps[i] =
                            pre.powerUpsOnBoard[request.position]

---------------------------------------------------------------------------
(* Bonus turns *)

(* the move ran into a protected occupant of its landing square *)
captureBlocked ==
    /\ movedOnTrack
    /\ captureOutcome(pre, pre.tokens[cmd.a.tokenId], cmd.a.tokenId, landing) = "blocked"

(* a BASE, ACTIVE or HOME_STRETCH token was moved on a die value of 6 *)
movedOnSix ==
    /\ moved
    /\ pre.diceRoll = 6
    /\ pre.tokens[cmd.a.tokenId].status \in { "BASE", "ACTIVE", "HOME_STRETCH" }

(* C32: after any successful move made on a die value of 6 - from BASE, on *)
(* the track, into the home lane or inside it, finishing moves included -  *)
(* the current player is unchanged and phase is ROLLING, unless the move   *)
(* was a capture blocked by an invulnerable or immune occupant             *)
C32_SixGrantsBonus ==
    (movedOnSix /\ ~captureBlocked)
    => /\ currentPlayerIndex = pre.currentPlayerIndex
       /\ phase = "ROLLING"

---------------------------------------------------------------------------
(* Moves in the home lane *)

(* moveToken was called for a HOME_STRETCH token of the current player,    *)
(* not frozen, with a die value pending                                    *)
calledInLane ==
    /\ cmd.op = "moveToken"
    /\ ~moveRejected(pre, cmd.a.tokenId)
    /\ pre.tokens[cmd.a.tokenId].status = "HOME_STRETCH"

(* C33: a HOME_STRETCH token whose lane position plus the roll exceeds 5   *)
(* has no legal move, as for the roll's own test: moveToken leaves the     *)
(* store unchanged; the token becomes FINISHED only when lane position     *)
(* plus roll is exactly 5                                                  *)
C33_LaneOvershootDeclined ==
    calledInLane
    => /\ walkedFrom + walkedRoll > LaneEnd => get = pre
       /\ tokens[cmd.a.tokenId].status = "FINISHED" => walkedFrom + walkedRoll = LaneEnd

---------------------------------------------------------------------------
(* Moves of a finished token *)

(* moveToken was called for a FINISHED token of the current player, not    *)
(* frozen, with a die value pending                                        *)
calledOnFinished ==
    /\ cmd.op = "moveToken"
    /\ ~moveRejected(pre, cmd.a.tokenId)
    /\ pre.tokens[cmd.a.tokenId].status = "FINISHED"

(* C34: moveToken on a FINISHED token of the current player leaves the     *)
(* whole store unchanged: the die value is kept, no counter is decremented *)
(* and the turn does not advance                                           *)
C34_FinishedTokenDeclined ==
    calledOnFinished => get = pre

---------------------------------------------------------------------------
(* Protection *)

(* the player who acted in the command that has just run, or Undef *)
actor ==
    CASE cmd.op = "activatePowerUp" -> cmd.a.playerId
      [] cmd.op = "moveToken" /\ hasToken(pre, cmd.a.tokenId) ->
             pre.tokens[cmd.a.tokenId].playerId
      [] OTHER -> Undef

(* the tokens that were invulnerable or immune and belong to an opponent   *)
(* of the actor                                                            *)
protectedFromActor ==
    { t \in DOMAIN pre.tokens :
        /\ actor # Undef
        /\ pre.tokens[t].playerId # actor
        /\ pre.tokens[t].isInvulnerable \/ pre.tokens[t].isImmune }

(* C35: invulnerable and immune tokens are spared alike: no move and no    *)
(* power-up of an opponent sends such a token to BASE, freezes it, pulls   *)
(* it or swaps it                                                          *)
C35_ProtectionIsUniform ==
    (DOMAIN tokens = DOMAIN pre.tokens)
    => \A t \in protectedFromActor :
           /\ tokens[t].status = pre.tokens[t].status
           /\ tokens[t].position = pre.tokens[t].position
           /\ tokens[t].frozenTurnsRemaining = pre.tokens[t].frozenTurnsRemaining

---------------------------------------------------------------------------
(* The skipped index *)

(* the skipped squares of the 4-player board, by seat *)
skippedSquares == << 51, 12, 38, 25 >>

(* token t of the 4-player board stands on the skipped index of its player *)
onOwnSkippedIndex(t) ==
    /\ tokens[t].status = "ACTIVE"
    /\ tokens[t].position = skippedSquares[tokens[t].playerId + 1]
    /\ tokens[t].position = getSkippedIndex(tokens[t].playerId, 4)

(* C36: on the 4-player board no ACTIVE token stands on the skipped index  *)
(* of its own player (51, 12, 38, 25 for seats 0..3), whichever way it     *)
(* moved and whatever power-up acted on it                                 *)
C36_SkippedIndexBypassed ==
    playerCount = 4 => \A t \in DOMAIN tokens : ~onOwnSkippedIndex(t)

---------------------------------------------------------------------------
(* The delayed advance and the commands of the delay window *)

(* the store but for its count of outstanding callbacks *)
withoutTimers(st) == [ st EXCEPT !.timers = 0 ]

(* the callback has run in a store that a command of the delay window had  *)
(* taken out of SKIPPING                                                   *)
timerFiredLate == cmd.op = "timer" /\ pre.phase # "SKIPPING"

(* C37: the delayed advance takes effect only for the turn that scheduled  *)
(* it: once init, a move, an activation or another roll has taken the      *)
(* game out of SKIPPING, the callback changes neither the turn nor the     *)
(* phase nor anything else                                                 *)
C37_DelayedAdvanceOnlyForItsTurn ==
    timerFiredLate => withoutTimers(get) = withoutTimers(pre)

---------------------------------------------------------------------------
(* Progress of the tokens within a game *)

(* a command other than the restart has run on the same tokens *)
playedOn == /\ cmd.op \notin { "idle", "initGame" }
            /\ DOMAIN tokens = DOMAIN pre.tokens

(* token record a follows token record b in the order of progress *)
progressed(b, a) ==
    CASE b.status = "FINISHED" -> a.status = "FINISHED" /\ a.position = LaneEnd
      [] b.status = "HOME_STRETCH" ->
             \/ a.status = "HOME_STRETCH" /\ a.position >= b.position
             \/ a.status = "FINISHED" /\ a.position = LaneEnd
      [] b.status = "BASE" -> a.status \in { "BASE", "ACTIVE" }
      [] OTHER -> a.status \in { "BASE", "ACTIVE", "HOME_STRETCH", "FINISHED" }

(* C38: within a game no command takes a FINISHED token from FINISHED at   *)
(* position 5, a HOME_STRETCH token stays HOME_STRETCH with a lane index   *)
(* that does not decrease or becomes FINISHED, and no token goes back to   *)
(* BASE but from ACTIVE                                                    *)
C38_ProgressIsMonotone ==
    playedOn => \A t \in DOMAIN tokens : progressed(pre.tokens[t], tokens[t])

(* a token has advanced within its lane *)
C38_Witness ==
    /\ playedOn
    /\ cmd.op = "moveToken"
    /\ hasToken(pre, cmd.a.tokenId)
    /\ pre.tokens[cmd.a.tokenId].status = "HOME_STRETCH"
    /\ tokens[cmd.a.tokenId].status = "HOME_STRETCH"
    /\ tokens[cmd.a.tokenId].position > pre.tokens[cmd.a.tokenId].position

---------------------------------------------------------------------------
(* The phased token *)

(* a phased token has moved *)
phasedMoved == moved /\ pre.tokens[cmd.a.tokenId].isPhased

(* C39: a move of a phased token leaves the status and the position of     *)
(* every other token as they were, whatever stands on the square it lands  *)
(* on, and ends the phased state: after the move the token is no longer    *)
(* phased and its counter is 0                                             *)
C39_PhasedMoveSparesAndExpires ==
    phasedMoved
    => /\ \A t \in DOMAIN tokens \ { cmd.a.tokenId } :
              /\ tokens[t].status = pre.tokens[t].status
              /\ tokens[t].position = pre.tokens[t].position
       /\ ~tokens[cmd.a.tokenId].isPhased
       /\ tokens[cmd.a.tokenId].phasedTurnsRemaining = 0

=============================================================================
